---------------------------- MODULE Spec2Model ----------------------------
(***************************************************************************)
(* Model of the backtest engine of backend/app/api/backtest.py             *)
(* (run_bollinger_breakout_backtest) together with the Bollinger breakout  *)
(* policy of backend/app/core/strategy_base.py.                            *)
(*                                                                         *)
(* Numbers.  The program computes with floats; the model computes with     *)
(* exact rationals, so rounding error is not modelled.                     *)
(*   - A price is an integer number of price units of 1/199 of a currency  *)
(*     unit: the price 100 is 19900, a candle close of 20000 gives the     *)
(*     entry price 20000 * 0.995 = 19900 exactly.                          *)
(*   - An amount of money (capital, size, pnl, equity) is a reduced        *)
(*     fraction [n |-> numerator, d |-> denominator] with d > 0.           *)
(*   - A timestamp is the index of the candle in ohlcv_data (the index of  *)
(*     the hourly date_range, strictly increasing).                        *)
(*                                                                         *)
(* The series.  generate_test_ohlcv_data draws the candles at random; the  *)
(* loop reads them causally, so the model draws the candle of index i when *)
(* the loop reaches it.  The candles before index 79 are never read by the *)
(* engine and are left out; series shorter than 80 candles behave like the *)
(* series of 80 (no candle is processed).                                  *)
(***************************************************************************)
EXTENDS Integers, Sequences, FiniteSets, TLC

VARIABLES
    pc,               \* "loop" while the for-loop runs, "done" after the forced close,
                      \* "failed" when max() of the empty equity list raised
    len_data,         \* len(ohlcv_data)
    ohlcv_data,       \* the candles read so far: index (from 79 on) -> candle row
    i,                \* the next loop index, range(80, len(ohlcv_data))
    position,         \* <<>> for None, <<p>> for the open position p
    trades,           \* the ledger: sequence of trade dicts
    current_capital,  \* rational
    equity_curve,     \* sequence of [date, equity]
    close_writes,     \* history: close_writes[k] counts the writes of trades[k]'s close fields
    results,          \* <<>> until the run returns, then <<r>>: r holds the returned
                      \* summary and statistics and the locals they are rounded from
    call,             \* a call of a pure component under analysis: <<>> or <<c>>
    ret,              \* its outcome: <<>> or <<[kind |-> "return" or "raise", value |-> v]>>
    backtest_jobs,    \* the module-level dict: job_id -> job dict
    db_jobs,          \* the rows of the backtest_jobs table, in insertion order
    background_tasks, \* the run_backtest tasks scheduled so far, each with its position
    live_trading_state,   \* the module-level dict of live.py
    live_trading_status,  \* the live_trading_status table: <<>> or <<row>> (its first row)
    active_connections,   \* ConnectionManager.active_connections: a list of sockets
    connection_data,      \* ConnectionManager.connection_data: socket -> dict
    application_state,    \* socket -> the state of the WebSocket object
    broadcasting          \* <<>> or <<b>>: the position of the broadcast in progress

job_vars == <<backtest_jobs, db_jobs, background_tasks>>

live_vars == <<live_trading_state, live_trading_status>>

socket_vars == <<active_connections, connection_data, application_state, broadcasting>>

service_vars == <<live_vars, socket_vars>>

vars == <<pc, len_data, ohlcv_data, i, position, trades, current_capital,
          equity_curve, close_writes, results, call, ret, job_vars, service_vars>>

\* no backtest request was served
NoJobs ==
    /\ backtest_jobs = <<>>
    /\ db_jobs = <<>>
    /\ background_tasks = <<>>

\* risk_per_trade in percent: the 0.05 of live_trading_state and of the defaults
DefaultRisk == 5

\* live_trading_state as the module creates it
InitialLiveState ==
    [is_active |-> FALSE, strategy_id |-> <<>>, risk_per_trade |-> DefaultRisk,
     start_time |-> <<>>]

\* no live-trading request was served, the table is empty and no socket exists
ServiceIdle ==
    /\ live_trading_state = InitialLiveState
    /\ live_trading_status = <<>>
    /\ active_connections = <<>>
    /\ connection_data = <<>>
    /\ application_state = <<>>
    /\ broadcasting = <<>>

---------------------------------------------------------------------------
(* Bounds of the model *)

\* the engine processes at most MaxCandles candles (len(ohlcv_data) <= 80 + MaxCandles)
MaxCandles == 4

---------------------------------------------------------------------------
(* Exact rational arithmetic standing for the program's float arithmetic *)

Abs(x) == IF x < 0 THEN -x ELSE x

RECURSIVE Gcd(_, _)
Gcd(a, b) == IF b = 0 THEN a ELSE Gcd(b, a % b)

\* the reduced fraction a/b, b # 0
Frac(a, b) ==
    LET g == Gcd(Abs(a), Abs(b))
        s == IF b < 0 THEN -1 ELSE 1
    IN  [n |-> s * (a \div g), d |-> s * (b \div g)]

\* r * a / b for a reduced fraction r and integers a, b (b > 0), reduced
\* crosswise before multiplying
RScale(r, a, b) ==
    LET f  == Frac(a, b)
        g1 == Gcd(Abs(r.n), f.d)
        g2 == Gcd(Abs(f.n), r.d)
    IN  IF r.n = 0 \/ f.n = 0 THEN [n |-> 0, d |-> 1]
        ELSE [n |-> (r.n \div g1) * (f.n \div g2), d |-> (r.d \div g2) * (f.d \div g1)]

RMul(r, q) == RScale(r, q.n, q.d)

RAdd(r, q) ==
    LET g == Gcd(r.d, q.d)
    IN  Frac(r.n * (q.d \div g) + q.n * (r.d \div g), (r.d \div g) * q.d)

RNeg(r) == [n |-> -r.n, d |-> r.d]

RSub(r, q) == RAdd(r, RNeg(q))

\* r / q, q # 0
RDiv(r, q) == IF q.n < 0 THEN RScale(r, -q.d, -q.n) ELSE RScale(r, q.d, q.n)

RLess(r, q) == RSub(r, q).n < 0

RPos(r) == r.n > 0

RInt(k) == [n |-> k, d |-> 1]

Max(a, b) == IF a >= b THEN a ELSE b

---------------------------------------------------------------------------
(* The candle series *)

\* A row of the series with the last values of the rolling Bollinger bands
\* (pandas rolling mean/std are inputs of the model).  Closes, in percent of
\* the entry price 19900 that the signal candle gives: 10 (a collapse far
\* below the stop), 97, 98, 100.5, 102, 103, 147, 150, 300.
Closes == {1990, 19303, 19502, 20000, 20298, 20497, 29253, 29850, 59700}

\* a candle that does not close above its open (condition 3 fails)
QuietCandle(c) ==
    [open |-> c, high |-> c, low |-> c, close |-> c,
     bb20_lower |-> 19500, bb20_upper |-> 20500, bb80_upper |-> 21000]

\* a candle opening below the lower 20-band, with a wick above the sum of the
\* upper bands, closing above its open
BreakoutCandle ==
    [open |-> 19000, high |-> 42000, low |-> 19000, close |-> 20000,
     bb20_lower |-> 19500, bb20_upper |-> 20500, bb80_upper |-> 21000]

Candles == {QuietCandle(c) : c \in Closes} \cup {BreakoutCandle}

\* the candle at index 79, the first whose prefix holds 80 candles
WarmupCandles == {QuietCandle(20000), BreakoutCandle}


---------------------------------------------------------------------------
(* BollingerBandBreakoutStrategy *)

\* check_entry_signal needs at least this many candles
MinCandles == 80

\* the lookback guard taken from the regime classifier (120 candles)
check_entry_signal_Needs120(n, row) ==
    IF n < 120 THEN FALSE
    ELSE LET condition1     == row.open < row.bb20_lower
             combined_upper == row.bb20_upper + row.bb80_upper
             condition2     == row.high > combined_upper
             condition3     == row.close > row.open
         IN  condition1 /\ condition2 /\ condition3

\* the three conditions compared with >= and <=
check_entry_signal_NonStrict(n, row) ==
    IF n < MinCandles THEN FALSE
    ELSE LET condition1     == row.open <= row.bb20_lower
             combined_upper == row.bb20_upper + row.bb80_upper
             condition2     == row.high >= combined_upper
             condition3     == row.close >= row.open
         IN  condition1 /\ condition2 /\ condition3

\* the wick compared with the upper 20-band alone
check_entry_signal_UpperBand20(n, row) ==
    IF n < MinCandles THEN FALSE
    ELSE LET condition1 == row.open < row.bb20_lower
             condition2 == row.high > row.bb20_upper
             condition3 == row.close > row.open
         IN  condition1 /\ condition2 /\ condition3

\* check_entry_signal(ohlcv_df) for a prefix of n candles whose last row is row
check_entry_signal(n, row) ==
    IF n < MinCandles THEN FALSE
    ELSE LET condition1     == row.open < row.bb20_lower
             combined_upper == row.bb20_upper + row.bb80_upper
             condition2     == row.high > combined_upper
             condition3     == row.close > row.open
         IN  condition1 /\ condition2 /\ condition3

\* get_entry_price: 0.5% below the last close (exact for closes that are
\* multiples of 200 price units, as the closes of the signal candles are)
get_entry_price(row) == (row.close * 995) \div 1000

get_position_size_ratio == Frac(3, 10)

\* set_trailing_stop(entry_price): the thresholds as rationals
set_trailing_stop(entry_price) ==
    [stop_loss         |-> Frac(entry_price * 97, 100),
     take_profit       |-> RInt(entry_price * 3),
     trailing_stop     |-> Frac(entry_price * 985, 1000),
     max_profit_target |-> RInt(entry_price * 3)]

---------------------------------------------------------------------------
(* run_bollinger_breakout_backtest: the pieces of one loop iteration *)

\* the first index of the loop, range(80, len(ohlcv_data))
LoopStart == 80

\* request.initial_capital: 10000/3, so that the first position has size 1000
initial_capital == Frac(10000, 3)

None == <<>>

Last(s) == s[Len(s)]

\* the entry branch without the `position is None` test
EntryBranch_IgnoresPosition(pos, n, row) == check_entry_signal(n, row)

\* `if position is None and strategy.check_entry_signal(current_data)`
EntryBranch(pos, n, row) == pos = None /\ check_entry_signal(n, row)

\* `elif position is not None`
ExitBranch(pos, n, row) == ~EntryBranch(pos, n, row) /\ pos # None

\* the pnl of a unit count: price delta times size, not divided by the entry price
Pnl_PerUnit(current_price, entry_price, position_size) ==
    RScale(position_size, current_price - entry_price, 1)

\* pnl = (current_price - entry_price) * position_size / entry_price
Pnl(current_price, entry_price, position_size) ==
    RScale(position_size, current_price - entry_price, entry_price)

\* the running high overwritten by the current price
UpdateHighest_Overwrites(highest_price, current_price) == current_price

\* position['highest_price'] = max(position['highest_price'], current_price)
UpdateHighest(highest_price, current_price) == Max(highest_price, current_price)

\* the chain with the trailing test first
CloseReason_TrailingFirst(current_price, entry_price, highest_price) ==
    LET stop_info         == set_trailing_stop(entry_price)
        stop_loss         == stop_info.stop_loss
        max_profit_target == stop_info.max_profit_target
        trailing_stop     == Frac(highest_price * 985, 1000)
        cur               == RInt(current_price)
    IN  IF ~RLess(trailing_stop, cur) /\ highest_price * 100 > entry_price * 102
        THEN "trailing_stop"
        ELSE IF ~RLess(stop_loss, cur) THEN "stop_loss"
        ELSE IF ~RLess(cur, max_profit_target) THEN "take_profit"
        ELSE ""

\* the chain with a trailing test that is not armed by the 2% rise
CloseReason_AlwaysArmed(current_price, entry_price, highest_price) ==
    LET stop_info         == set_trailing_stop(entry_price)
        stop_loss         == stop_info.stop_loss
        max_profit_target == stop_info.max_profit_target
        trailing_stop     == Frac(highest_price * 985, 1000)
        cur               == RInt(current_price)
    IN  IF ~RLess(stop_loss, cur) THEN "stop_loss"
        ELSE IF ~RLess(cur, max_profit_target) THEN "take_profit"
        ELSE IF ~RLess(trailing_stop, cur) THEN "trailing_stop"
        ELSE ""

\* The if / elif / elif chain choosing close_reason; "" when should_close stays
\* False.  stop_loss is the source's "손절", take_profit "최대 익절 (200%)",
\* trailing_stop "트레일링 스탑".
CloseReason(current_price, entry_price, highest_price) ==
    LET stop_info         == set_trailing_stop(entry_price)
        stop_loss         == stop_info.stop_loss
        max_profit_target == stop_info.max_profit_target
        trailing_stop     == Frac(highest_price * 985, 1000)
        cur               == RInt(current_price)
    IN  IF ~RLess(stop_loss, cur) THEN "stop_loss"
        ELSE IF ~RLess(cur, max_profit_target) THEN "take_profit"
        ELSE IF ~RLess(trailing_stop, cur) /\ highest_price * 100 > entry_price * 102
             THEN "trailing_stop"
        ELSE ""

\* the close date taken as the loop's offset instead of the candle's timestamp
ClosedTrade_LoopOffset(t, pnl, close_date, close_price, close_reason, pos) ==
    [pnl                    |-> pnl,
     close_date             |-> close_date - LoopStart,
     close_price            |-> close_price,
     close_reason           |-> close_reason,
     highest_price_reached  |-> pos.highest_price,
     max_profit_percentage  |-> Frac((pos.highest_price - pos.entry_price) * 100,
                                     pos.entry_price)] @@ t

\* the close fields written into trades[-1]
ClosedTrade(t, pnl, close_date, close_price, close_reason, pos) ==
    [pnl                    |-> pnl,
     close_date             |-> close_date,
     close_price            |-> close_price,
     close_reason           |-> close_reason,
     highest_price_reached  |-> pos.highest_price,
     max_profit_percentage  |-> Frac((pos.highest_price - pos.entry_price) * 100,
                                     pos.entry_price)] @@ t

ReplaceLast(s, x) == [s EXCEPT ![Len(s)] = x]

\* an equity point marked to market: capital plus the open position's unrealized pnl
EquityPoint_MarkToMarket(current_date, capital) ==
    [date   |-> current_date,
     equity |-> IF position # None
                THEN RAdd(capital, Pnl(ohlcv_data'[current_date].close,
                                       position[1].entry_price, position[1].size))
                ELSE capital]

\* equity_curve.append({"date": current_date, "equity": current_capital})
EquityPoint(current_date, capital) == [date |-> current_date, equity |-> capital]

\* current_data = ohlcv_data.iloc[:i+1]: the row at index i becomes known
ReadCandle(row) ==
    ohlcv_data' = [k \in (DOMAIN ohlcv_data) \cup {i} |->
                      IF k = i THEN row ELSE ohlcv_data[k]]

---------------------------------------------------------------------------
(* run_bollinger_breakout_backtest: the performance summary.  The Sharpe     *)
(* ratio (numpy mean, standard deviation and square root) is left out.      *)

\* t.get("close_date")
IsClosed(t) == "close_date" \in DOMAIN t

\* sum() of a list of amounts
RECURSIVE RSum(_)
RSum(xs) == IF xs = <<>> THEN RInt(0) ELSE RAdd(xs[1], RSum(Tail(xs)))

\* max() and min() of a non-empty list of amounts
RECURSIVE RMaxOf(_)
RMaxOf(xs) ==
    IF Len(xs) = 1 THEN xs[1]
    ELSE LET m == RMaxOf(Tail(xs)) IN IF RLess(xs[1], m) THEN m ELSE xs[1]

RECURSIVE RMinOf(_)
RMinOf(xs) ==
    IF Len(xs) = 1 THEN xs[1]
    ELSE LET m == RMinOf(Tail(xs)) IN IF RLess(m, xs[1]) THEN m ELSE xs[1]

\* round(x, 2), as the set of its possible values: the nearest multiple of
\* 1/100.  When x lies exactly halfway between two of them the float that stands
\* for x lies on either side, and round() gives either neighbour.
Round2(x) ==
    LET whole == x.n \div x.d
        rest  == x.n - whole * x.d
        cents == (rest * 100) \div x.d
        left  == rest * 100 - cents * x.d
        lower == Frac(whole * 100 + cents, 100)
        upper == Frac(whole * 100 + cents + 1, 100)
    IN  IF 2 * left > x.d THEN {upper}
        ELSE IF 2 * left < x.d THEN {lower}
        ELSE {lower, upper}

\* [t.get("pnl", 0) for t in trades]
PnlsOf(ts) == [k \in 1 .. Len(ts) |-> ts[k].pnl]

\* total_trades = len([t for t in trades if t.get("close_date")])
total_trades(ts) == Len(SelectSeq(ts, IsClosed))

\* the winners counted with pnl >= 0
winning_trades_NonNegative(ts) == Len(SelectSeq(PnlsOf(ts), LAMBDA p : p.n >= 0))

\* winning_trades = len([t for t in trades if t.get("pnl", 0) > 0])
winning_trades(ts) == Len(SelectSeq(PnlsOf(ts), RPos))

\* round((winning_trades / total_trades * 100), 2) if total_trades > 0 else 0
win_rate(winning, total) ==
    IF total > 0 THEN Round2(RScale(Frac(winning, total), 100, 1)) ELSE {RInt(0)}

\* total_pnl = sum(t.get("pnl", 0) for t in trades)
total_pnl(ts) == RSum(PnlsOf(ts))

\* final_capital = request.initial_capital + total_pnl
final_capital(pnl_sum) == RAdd(initial_capital, pnl_sum)

\* the return taken relative to the final capital
total_return_OverFinal(final) ==
    RScale(RDiv(RSub(final, initial_capital), final), 100, 1)

\* total_return = ((final_capital - initial_capital) / initial_capital) * 100
total_return(final) ==
    RScale(RDiv(RSub(final, initial_capital), initial_capital), 100, 1)

\* equities = [e["equity"] for e in equity_curve]
EquitiesOf(curve) == [k \in 1 .. Len(curve) |-> curve[k].equity]

\* the largest decline from an earlier point of the curve to a later one
mdd_PeakToTrough(equities) ==
    LET pairs == {p \in (1 .. Len(equities)) \X (1 .. Len(equities)) :
                      p[1] <= p[2] /\ RPos(equities[p[1]])}
        dd(p) == RDiv(RSub(equities[p[1]], equities[p[2]]), equities[p[1]])
    IN  IF pairs = {} THEN RInt(0)
        ELSE LET worst == CHOOSE p \in pairs : \A q \in pairs : ~RLess(dd(p), dd(q))
             IN  RScale(dd(worst), 100, 1)

\* mdd = ((max_equity - min_equity) / max_equity) * 100 if max_equity > 0 else 0
mdd(equities) ==
    LET max_equity == RMaxOf(equities)
        min_equity == RMinOf(equities)
    IN  IF RPos(max_equity)
        THEN RScale(RDiv(RSub(max_equity, min_equity), max_equity), 100, 1)
        ELSE RInt(0)

\* sum(t.get("pnl", 0) for t in trades if t.get("pnl", 0) > 0) and ... < 0
SumOfWins(ts) == RSum(SelectSeq(PnlsOf(ts), RPos))

SumOfLosses(ts) == RSum(SelectSeq(PnlsOf(ts), LAMBDA p : p.n < 0))

\* the profit factor dividing by 1 when nothing was lost
profit_factor_LossFloor(ts) ==
    IF SumOfLosses(ts).n # 0
    THEN Round2(RDiv(SumOfWins(ts), RNeg(SumOfLosses(ts))))
    ELSE Round2(SumOfWins(ts))

\* "profit_factor": round(wins / abs(losses), 2) if losses != 0 else 0
profit_factor(ts) ==
    IF SumOfLosses(ts).n # 0
    THEN Round2(RDiv(SumOfWins(ts), RNeg(SumOfLosses(ts))))
    ELSE {RInt(0)}

\* "avg_win": round(wins / winning_trades, 2) if winning_trades > 0 else 0
avg_win(ts) ==
    IF winning_trades(ts) > 0
    THEN Round2(RScale(SumOfWins(ts), 1, winning_trades(ts)))
    ELSE {RInt(0)}

\* "avg_loss": round(losses / (total_trades - winning_trades), 2)
\* if (total_trades - winning_trades) > 0 else 0
avg_loss(ts) ==
    IF total_trades(ts) - winning_trades(ts) > 0
    THEN Round2(RScale(SumOfLosses(ts), 1, total_trades(ts) - winning_trades(ts)))
    ELSE {RInt(0)}

\* the "statistics" block of the result, without the Sharpe ratio: the set of
\* its possible values
Statistics(ts) ==
    [profit_factor : profit_factor(ts), avg_win : avg_win(ts), avg_loss : avg_loss(ts)]

\* The values the run can return for a ledger and a non-empty equity curve,
\* each together with the locals of the performance calculation.
Summary(ts, curve) ==
    LET total   == total_trades(ts)
        winning == winning_trades(ts)
        pnl_sum == total_pnl(ts)
        final   == final_capital(pnl_sum)
        return  == total_return(final)
        drawdown == mdd(EquitiesOf(curve))
    IN  [locals     : {[total_pnl     |-> pnl_sum,
                         final_capital |-> final,
                         total_return  |-> return,
                         mdd           |-> drawdown]},
         summary    : [initial_capital : {initial_capital},
                       final_capital   : Round2(final),
                       total_return    : Round2(return),
                       total_trades    : {total},
                       winning_trades  : {winning},
                       win_rate        : win_rate(winning, total),
                       total_pnl       : Round2(pnl_sum),
                       max_drawdown    : Round2(drawdown)],
         statistics : Statistics(ts)]

---------------------------------------------------------------------------
(* run_bollinger_breakout_backtest: state machine *)

Init ==
    /\ pc = "loop"
    /\ len_data \in LoopStart .. (LoopStart + MaxCandles)
    /\ \E row \in WarmupCandles : ohlcv_data = [k \in {LoopStart - 1} |-> row]
    /\ i = LoopStart
    /\ position = None
    /\ trades = <<>>
    /\ current_capital = initial_capital
    /\ equity_curve = <<>>
    /\ close_writes = <<>>
    /\ results = None
    /\ call = None
    /\ ret = None
    /\ NoJobs
    /\ ServiceIdle

InLoop == pc = "loop" /\ i < len_data

\* the position sized from the starting capital instead of the current one
PositionSize_FromInitial(capital) == RMul(initial_capital, get_position_size_ratio)

\* position_size = current_capital * strategy.get_position_size_ratio()
PositionSize(capital) == RMul(capital, get_position_size_ratio)

\* One iteration taking the entry branch: a position and its open trade are
\* created on candle i.
OpenPosition(row) ==
    /\ InLoop
    /\ EntryBranch(position, i + 1, row)
    /\ ReadCandle(row)
    /\ LET entry_price   == get_entry_price(row)
           position_size == PositionSize(current_capital)
           stop_info     == set_trailing_stop(entry_price)
       IN  /\ position' = << [entry_date    |-> i,
                              entry_price   |-> entry_price,
                              size          |-> position_size,
                              direction     |-> "LONG",
                              highest_price |-> entry_price] >>
           /\ trades' = Append(trades,
                               [date              |-> i,
                                symbol            |-> "BTC/USDT",
                                action            |-> "BUY",
                                direction         |-> "LONG",
                                price             |-> entry_price,
                                size              |-> position_size,
                                pnl               |-> RInt(0),
                                stop_loss         |-> stop_info.stop_loss,
                                max_profit_target |-> stop_info.max_profit_target])
    /\ close_writes' = Append(close_writes, 0)
    /\ equity_curve' = Append(equity_curve, EquityPoint(i, current_capital))
    /\ i' = i + 1
    /\ UNCHANGED <<pc, len_data, current_capital, results, call, ret, job_vars, service_vars>>

\* One iteration taking the exit branch with should_close = True.
ClosePosition(row) ==
    /\ InLoop
    /\ ExitBranch(position, i + 1, row)
    /\ ReadCandle(row)
    /\ LET pos           == position[1]
           current_price == row.close
           pnl           == Pnl(current_price, pos.entry_price, pos.size)
           highest       == UpdateHighest(pos.highest_price, current_price)
           close_reason  == CloseReason(current_price, pos.entry_price, highest)
           new_capital   == RAdd(current_capital, pnl)
       IN  /\ close_reason # ""
           /\ trades' = ReplaceLast(trades,
                            ClosedTrade(Last(trades), pnl, i, current_price, close_reason,
                                        [pos EXCEPT !.highest_price = highest]))
           /\ close_writes' = ReplaceLast(close_writes, Last(close_writes) + 1)
           /\ current_capital' = new_capital
           /\ position' = None
           /\ equity_curve' = Append(equity_curve, EquityPoint(i, new_capital))
    /\ i' = i + 1
    /\ UNCHANGED <<pc, len_data, results, call, ret, job_vars, service_vars>>

\* One iteration taking the exit branch with should_close = False.
HoldPosition(row) ==
    /\ InLoop
    /\ ExitBranch(position, i + 1, row)
    /\ ReadCandle(row)
    /\ LET pos           == position[1]
           current_price == row.close
           highest       == UpdateHighest(pos.highest_price, current_price)
       IN  /\ CloseReason(current_price, pos.entry_price, highest) = ""
           /\ position' = << [pos EXCEPT !.highest_price = highest] >>
    /\ equity_curve' = Append(equity_curve, EquityPoint(i, current_capital))
    /\ i' = i + 1
    /\ UNCHANGED <<pc, len_data, trades, close_writes, current_capital, results, call, ret, job_vars, service_vars>>

\* One iteration taking neither branch (no position, no signal).
SkipCandle(row) ==
    /\ InLoop
    /\ ~EntryBranch(position, i + 1, row)
    /\ ~ExitBranch(position, i + 1, row)
    /\ ReadCandle(row)
    /\ equity_curve' = Append(equity_curve, EquityPoint(i, current_capital))
    /\ i' = i + 1
    /\ UNCHANGED <<pc, len_data, position, trades, close_writes, current_capital,
                   results, call, ret, job_vars, service_vars>>

AfterLoop == pc = "loop" /\ i >= len_data

\* the end of the loop without the forced close
ForceClose_Skipped ==
    /\ AfterLoop
    /\ position # None
    /\ pc' = "done"
    /\ \E r \in Summary(trades, equity_curve) : results' = <<r>>
    /\ UNCHANGED <<len_data, ohlcv_data, i, position, trades, current_capital,
                   equity_curve, close_writes, call, ret, job_vars, service_vars>>

\* the forced close appending an equity point instead of rewriting the last one
ForceClose_AppendsPoint ==
    /\ AfterLoop
    /\ position # None
    /\ LET pos           == position[1]
           last_index    == len_data - 1
           last_candle   == ohlcv_data[last_index]
           current_price == last_candle.close
           pnl           == Pnl(current_price, pos.entry_price, pos.size)
           new_capital   == RAdd(current_capital, pnl)
       IN  /\ trades' = ReplaceLast(trades,
                            ClosedTrade(Last(trades), pnl, last_index, current_price,
                                        "end_of_data", pos))
           /\ close_writes' = ReplaceLast(close_writes, Last(close_writes) + 1)
           /\ current_capital' = new_capital
           /\ equity_curve' = Append(equity_curve, EquityPoint(last_index, new_capital))
    /\ pc' = "done"
    /\ \E r \in Summary(trades', equity_curve') : results' = <<r>>
    /\ UNCHANGED <<len_data, ohlcv_data, i, position, call, ret, job_vars, service_vars>>

\* the forced close leaving the last equity point as the loop wrote it
ForceClose_KeepsLastPoint ==
    /\ AfterLoop
    /\ position # None
    /\ LET pos           == position[1]
           last_index    == len_data - 1
           last_candle   == ohlcv_data[last_index]
           current_price == last_candle.close
           pnl           == Pnl(current_price, pos.entry_price, pos.size)
           new_capital   == RAdd(current_capital, pnl)
       IN  /\ trades' = ReplaceLast(trades,
                            ClosedTrade(Last(trades), pnl, last_index, current_price,
                                        "end_of_data", pos))
           /\ close_writes' = ReplaceLast(close_writes, Last(close_writes) + 1)
           /\ current_capital' = new_capital
    /\ pc' = "done"
    /\ \E r \in Summary(trades', equity_curve) : results' = <<r>>
    /\ UNCHANGED <<len_data, ohlcv_data, i, position, equity_curve, call, ret, job_vars, service_vars>>

\* `if position is not None` after the loop: the forced close on the last candle.
ForceClose ==
    /\ AfterLoop
    /\ position # None
    /\ LET pos           == position[1]
           last_index    == len_data - 1
           last_candle   == ohlcv_data[last_index]
           current_price == last_candle.close
           pnl           == Pnl(current_price, pos.entry_price, pos.size)
           new_capital   == RAdd(current_capital, pnl)
       IN  /\ trades' = ReplaceLast(trades,
                            ClosedTrade(Last(trades), pnl, last_index, current_price,
                                        "end_of_data", pos))
           /\ close_writes' = ReplaceLast(close_writes, Last(close_writes) + 1)
           /\ current_capital' = new_capital
           /\ equity_curve' = ReplaceLast(equity_curve,
                                  [Last(equity_curve) EXCEPT !.equity = new_capital])
    /\ pc' = "done"
    /\ \E r \in Summary(trades', equity_curve') : results' = <<r>>
    /\ UNCHANGED <<len_data, ohlcv_data, i, position, call, ret, job_vars, service_vars>>

\* The loop ended with no position and a non-empty equity curve.
EndFlat ==
    /\ AfterLoop
    /\ position = None
    /\ equity_curve # <<>>
    /\ pc' = "done"
    /\ \E r \in Summary(trades, equity_curve) : results' = <<r>>
    /\ UNCHANGED <<len_data, ohlcv_data, i, position, trades, current_capital,
                   equity_curve, close_writes, call, ret, job_vars, service_vars>>

\* len(ohlcv_data) <= 80: no candle was processed and max(equities) raises
\* ValueError on the empty list.
EmptyCurveError ==
    /\ AfterLoop
    /\ position = None
    /\ equity_curve = <<>>
    /\ pc' = "failed"
    /\ UNCHANGED <<len_data, ohlcv_data, i, position, trades, current_capital,
                   equity_curve, close_writes, results, call, ret, job_vars, service_vars>>

Next ==
    \/ \E row \in Candles : OpenPosition(row)
    \/ \E row \in Candles : ClosePosition(row)
    \/ \E row \in Candles : HoldPosition(row)
    \/ \E row \in Candles : SkipCandle(row)
    \/ ForceClose
    \/ EndFlat
    \/ EmptyCurveError

Spec == Init /\ [][Next]_vars

---------------------------------------------------------------------------
(* Properties of the engine *)

\* the step processes the candle at index i
ProcessesCandle == pc = "loop" /\ i' = i + 1

\* the three entry conditions on a row, written out
BreakoutOn(row) ==
    /\ row.open < row.bb20_lower
    /\ row.high > row.bb20_upper + row.bb80_upper
    /\ row.close > row.open

\* C1: at most one position is open at any point of a run (only the last trade
\* of the ledger can be unclosed, and it is unclosed exactly while the position
\* is open in the loop), and a candle processed while a position is open never
\* creates a position or appends a trade, whatever its entry signal.
C1_SingleOpenPosition ==
    /\ [](/\ \A k \in 1 .. Len(trades) : ~IsClosed(trades[k]) => k = Len(trades)
          /\ (position = None => \A k \in 1 .. Len(trades) : IsClosed(trades[k]))
          /\ (pc = "loop" /\ position # None =>
                 /\ trades # <<>>
                 /\ ~IsClosed(Last(trades))
                 /\ Last(trades).date = position[1].entry_date))
    /\ [][position # None =>
             /\ Len(trades') = Len(trades)
             /\ \A k \in 1 .. Len(trades) : trades'[k].date = trades[k].date
             /\ (position' = None \/ position'[1].entry_date = position[1].entry_date)]_vars

\* C1 witness: a candle with a true entry signal was processed while a position
\* opened on an earlier candle was open, and the ledger still holds one trade.
C1_Witness ==
    /\ pc = "loop"
    /\ position # None
    /\ position[1].entry_date < i - 1
    /\ BreakoutOn(ohlcv_data[i - 1])
    /\ Len(trades) = 1

\* the closing conditions on a candle close cur for entry price e and running
\* high h (after the update), in integers
StopLossHit(cur, e)   == cur * 100 <= e * 97
TakeProfitHit(cur, e) == cur >= e * 3
TrailingHit(cur, e, h) == cur * 1000 <= h * 985 /\ h * 100 > e * 102

RunningHigh(h, cur) == IF cur > h THEN cur ELSE h

\* C2: a candle processed while a position is open closes it with the first
\* matching reason in the order stop_loss, take_profit, trailing_stop, and
\* leaves it open (the trade unclosed) when no condition matches.
C2_FirstMatchingReasonWins ==
    [][ProcessesCandle /\ position # None =>
          LET cur    == ohlcv_data'[i].close
              e      == position[1].entry_price
              h      == RunningHigh(position[1].highest_price, cur)
              reason == IF StopLossHit(cur, e) THEN "stop_loss"
                        ELSE IF TakeProfitHit(cur, e) THEN "take_profit"
                        ELSE IF TrailingHit(cur, e, h) THEN "trailing_stop"
                        ELSE ""
          IN  IF reason = ""
              THEN position' # None /\ trades' = trades
              ELSE /\ position' = None
                   /\ IsClosed(Last(trades'))
                   /\ Last(trades').close_reason = reason
                   /\ Last(trades').close_date = i]_vars

\* C2 witness: a trade closed with reason stop_loss on a candle on which the
\* trailing condition held as well.
C2_Witness ==
    \E k \in 1 .. Len(trades) :
        /\ IsClosed(trades[k])
        /\ trades[k].close_reason = "stop_loss"
        /\ StopLossHit(trades[k].close_price, trades[k].price)
        /\ TrailingHit(trades[k].close_price, trades[k].price,
                       trades[k].highest_price_reached)

\* C3: a trade is closed with reason trailing_stop only when its close is at
\* most 0.985 of the running high and the running high exceeds 1.02 of the
\* entry price; and a position entered at 100 (19900 units) whose next closes
\* are 150 and 147 is closed by trailing_stop on the second of them.
C3_TrailingStopArmed ==
    /\ \A k \in 1 .. Len(trades) :
          IsClosed(trades[k]) /\ trades[k].close_reason = "trailing_stop" =>
              /\ trades[k].close_price * 1000 <= trades[k].highest_price_reached * 985
              /\ trades[k].highest_price_reached * 100 > trades[k].price * 102
    /\ \A k \in 1 .. Len(trades) :
          LET d == trades[k].date
          IN  /\ trades[k].price = 19900
              /\ d + 2 \in DOMAIN ohlcv_data
              /\ ohlcv_data[d + 1].close = 29850
              /\ ohlcv_data[d + 2].close = 29253
              => /\ IsClosed(trades[k])
                 /\ trades[k].close_reason = "trailing_stop"
                 /\ trades[k].close_date = d + 2

\* C3 witness: entry 100, size 1000, running high 150, closed at 147 by the
\* trailing stop.
C3_Witness ==
    \E k \in 1 .. Len(trades) :
        /\ IsClosed(trades[k])
        /\ trades[k].price = 19900
        /\ trades[k].size = RInt(1000)
        /\ trades[k].highest_price_reached = 29850
        /\ trades[k].close_price = 29253
        /\ trades[k].close_reason = "trailing_stop"

\* C4: the pnl of every closed trade is (close_price - price) * size / price:
\* the return on the notional, pnl / size, is the price return.
C4_RealizedPnl ==
    \A k \in 1 .. Len(trades) :
        IsClosed(trades[k]) =>
            RDiv(trades[k].pnl, trades[k].size)
                = Frac(trades[k].close_price - trades[k].price, trades[k].price)

\* C4 witness: the trade entered at 100 with size 1000 and closed in the loop at
\* 147 has pnl 470, and a later trade was closed by the forced close with a
\* non-zero pnl.
C4_Witness ==
    /\ \E k \in 1 .. Len(trades) :
          /\ IsClosed(trades[k])
          /\ trades[k].price = 19900
          /\ trades[k].size = RInt(1000)
          /\ trades[k].close_price = 29253
          /\ trades[k].close_reason # "end_of_data"
          /\ trades[k].pnl = RInt(470)
    /\ \E k \in 1 .. Len(trades) :
          /\ IsClosed(trades[k])
          /\ trades[k].close_reason = "end_of_data"
          /\ trades[k].pnl # RInt(0)

\* C5: when the run has ended every trade of the ledger is closed, a position
\* still open at the end of the data was closed at the close of the final
\* candle with reason end_of_data, and the close fields of a trade are written
\* exactly once (never for an unclosed trade, once for a closed one).
C5_ForcedCloseAtEndOfData ==
    /\ Len(close_writes) = Len(trades)
    /\ \A k \in 1 .. Len(trades) :
          close_writes[k] = (IF IsClosed(trades[k]) THEN 1 ELSE 0)
    /\ (pc # "loop" => \A k \in 1 .. Len(trades) : IsClosed(trades[k]))
    /\ (pc # "loop" /\ position # None =>
          /\ Last(trades).close_reason = "end_of_data"
          /\ Last(trades).close_date = len_data - 1
          /\ Last(trades).close_price = ohlcv_data[len_data - 1].close
          /\ Last(trades).date = position[1].entry_date)

\* C5 witness: a finished run whose first trade was closed in the loop and whose
\* last position was open when the data ended.
C5_Witness ==
    /\ pc = "done"
    /\ position # None
    /\ Len(trades) >= 2
    /\ trades[1].close_reason # "end_of_data"
    /\ Last(trades).close_reason = "end_of_data"

\* C6: capital changes only in a step that closes a trade, and the equity
\* recorded for a candle differs from the equity of the previous candle (the
\* initial capital for the first) only if a trade has that candle as its close
\* date.
C6_EquityChangesOnlyAtClose ==
    /\ [](\A k \in 1 .. Len(equity_curve) :
            LET prev == IF k = 1 THEN initial_capital ELSE equity_curve[k - 1].equity
            IN  equity_curve[k].equity # prev =>
                    \E j \in 1 .. Len(trades) :
                        /\ IsClosed(trades[j])
                        /\ trades[j].close_date = equity_curve[k].date)
    /\ [][current_capital' # current_capital =>
              /\ trades # <<>>
              /\ ~IsClosed(Last(trades))
              /\ IsClosed(Last(trades'))]_vars

\* C6 witness: two candles were recorded while a position with an unrealized
\* gain stayed open, and the recorded equity is still the initial capital.
C6_Witness ==
    /\ pc = "loop"
    /\ position # None
    /\ position[1].entry_date < i - 1
    /\ ohlcv_data[i - 1].close > position[1].entry_price
    /\ Len(equity_curve) >= 2
    /\ Last(equity_curve).equity = initial_capital
    /\ current_capital = initial_capital

\* C7: the equity curve holds one point per processed candle, the k-th point
\* carrying the timestamp of the k-th processed candle, and after the run its
\* length is the number of candles of the loop range (the forced close adds
\* none).
C7_OnePointPerCandle ==
    /\ Len(equity_curve) = i - LoopStart
    /\ \A k \in 1 .. Len(equity_curve) : equity_curve[k].date = LoopStart + k - 1
    /\ \A k \in 2 .. Len(equity_curve) : equity_curve[k - 1].date < equity_curve[k].date
    /\ (pc # "loop" => Len(equity_curve) = len_data - LoopStart)

\* C7 witness: a finished run with the forced close applied, in which candles
\* opened a position, closed one and did neither.
C7_Witness ==
    /\ pc = "done"
    /\ position # None
    /\ Last(trades).close_reason = "end_of_data"
    /\ Len(trades) = 2
    /\ Len(equity_curve) = 4
    /\ trades[1].date > LoopStart

\* C8: every closed trade has close_date >= date.
C8_CloseNotBeforeEntry ==
    \A k \in 1 .. Len(trades) :
        IsClosed(trades[k]) => trades[k].close_date >= trades[k].date

\* C8 witness: a position opened on the final candle and closed by the forced
\* close on that same candle, after a trade closed in the loop.
C8_Witness ==
    /\ pc = "done"
    /\ Len(trades) >= 2
    /\ trades[1].close_date > trades[1].date
    /\ Last(trades).close_reason = "end_of_data"
    /\ Last(trades).date = len_data - 1
    /\ Last(trades).close_date = Last(trades).date

\* C9: highest_price starts at the entry price, and a candle processed while
\* the position stays open sets it to the larger of its previous value and the
\* candle's close, so it never decreases.
C9_HighestNeverDecreases ==
    [][ProcessesCandle /\ position' # None =>
          IF position = None
          THEN position'[1].highest_price = position'[1].entry_price
          ELSE LET h     == position[1].highest_price
                   close == ohlcv_data'[i].close
                   h2    == position'[1].highest_price
               IN  /\ h2 >= h
                   /\ h2 >= close
                   /\ (h2 = h \/ h2 = close)]_vars

\* C9 witness: an open position whose last processed candle closed below the
\* running high reached on an earlier candle.
C9_Witness ==
    /\ pc = "loop"
    /\ position # None
    /\ position[1].entry_date < i - 2
    /\ position[1].highest_price > position[1].entry_price
    /\ ohlcv_data[i - 1].close < position[1].highest_price

\* the engine is flat when it reaches the candle at index k
FlatAt(k) ==
    \A j \in 1 .. Len(trades) :
        trades[j].date < k => IsClosed(trades[j]) /\ trades[j].close_date < k

\* C10 as stated: a true entry signal on the candle at which the prefix first
\* holds 80 candles (index 79) opens a position on that candle.
C10_EntryAtFirstFullLookback ==
    pc = "done" /\ BreakoutOn(ohlcv_data[MinCandles - 1]) =>
        \E j \in 1 .. Len(trades) : trades[j].date = MinCandles - 1

\* C10 amended: the engine looks for entries from the candle at index 80 on
\* (prefix of 81 candles): when flat, a true entry signal on a processed candle
\* opens a position on that candle; no position is opened on a candle without
\* the signal, nor on the candle at index 79.
C10_EntryFromLoopStart ==
    /\ \A k \in DOMAIN ohlcv_data :
          k >= LoopStart /\ FlatAt(k) /\ BreakoutOn(ohlcv_data[k]) =>
              \E j \in 1 .. Len(trades) :
                  /\ trades[j].date = k
                  /\ trades[j].price * 1000 = ohlcv_data[k].close * 995
    /\ \A j \in 1 .. Len(trades) :
          /\ trades[j].date >= LoopStart
          /\ trades[j].date \in DOMAIN ohlcv_data
          /\ BreakoutOn(ohlcv_data[trades[j].date])

\* C10 witness: index 79 carried a true signal and opened nothing; positions
\* were opened at index 80 and, after a close, on a later candle.
C10_Witness ==
    /\ BreakoutOn(ohlcv_data[MinCandles - 1])
    /\ Len(trades) = 2
    /\ trades[1].date = LoopStart
    /\ trades[2].date > LoopStart

\* the realized pnl of the trades before trades[k]
RECURSIVE RealizedBefore(_, _)
RealizedBefore(ts, k) ==
    IF k <= 1 THEN RInt(0)
    ELSE RAdd(RealizedBefore(ts, k - 1), ts[k - 1].pnl)

\* C11: every trade is entered at 0.995 times the close of its signal candle,
\* and its size is 0.30 times the capital at that moment, which is the initial
\* capital plus the realized pnl of all earlier trades.
C11_EntryPriceAndSize ==
    \A k \in 1 .. Len(trades) :
        /\ trades[k].price * 1000 = ohlcv_data[trades[k].date].close * 995
        /\ trades[k].size =
               RScale(RAdd(initial_capital, RealizedBefore(trades, k)), 30, 100)

\* A second trade is open after a first one closed with a non-zero pnl: its size
\* differs from 0.30 times the initial capital.
C11_Witness ==
    /\ Len(trades) >= 2
    /\ IsClosed(trades[1])
    /\ trades[1].pnl # RInt(0)
    /\ trades[2].price * 1000 = ohlcv_data[trades[2].date].close * 995
    /\ trades[2].size # RScale(initial_capital, 30, 100)
    /\ trades[2].size = RScale(RAdd(initial_capital, trades[1].pnl), 30, 100)


---------------------------------------------------------------------------
(* The signal components called on their own: the regime classifier of      *)
(* backend/app/core/market_analysis.py and the entry signals of the three   *)
(* policies of backend/app/core/strategy_base.py.  A call gives the length  *)
(* n of the series and the values the component reads off its last row      *)
(* (prices, moving averages, bands, RSI); the rolling computations that     *)
(* produce these values are not modelled.                                   *)

Return(v) == [kind |-> "return", value |-> v]

Raise(e) == [kind |-> "raise", value |-> e]

\* `if len(btc_ohlcv_df) < 120`
MinRegimeCandles == 120

\* the classifier without its length guard
analyze_market_regime_NoGuard(n, current_price, sma20, sma60, sma120) ==
    IF current_price > sma20 /\ sma20 > sma60 /\ sma60 > sma120 THEN Return("UPTREND")
    ELSE IF current_price < sma20 /\ sma20 < sma60 /\ sma60 < sma120
         THEN Return("DOWNTREND")
         ELSE Return("SIDEWAYS")

\* the classifier comparing with >= and <=
analyze_market_regime_NonStrict(n, current_price, sma20, sma60, sma120) ==
    IF n < MinRegimeCandles THEN Raise("ValueError")
    ELSE IF current_price >= sma20 /\ sma20 >= sma60 /\ sma60 >= sma120
         THEN Return("UPTREND")
         ELSE IF current_price <= sma20 /\ sma20 <= sma60 /\ sma60 <= sma120
              THEN Return("DOWNTREND")
              ELSE Return("SIDEWAYS")

\* MarketAnalyzer.analyze_market_regime
analyze_market_regime(n, current_price, sma20, sma60, sma120) ==
    IF n < MinRegimeCandles THEN Raise("ValueError")
    ELSE IF current_price > sma20 /\ sma20 > sma60 /\ sma60 > sma120
         THEN Return("UPTREND")
         ELSE IF current_price < sma20 /\ sma20 < sma60 /\ sma60 < sma120
              THEN Return("DOWNTREND")
              ELSE Return("SIDEWAYS")

\* MomentumStrategy: `if len(ohlcv_df) < 50`, rsi_oversold
MinMomentumCandles == 50

MomentumOversold == 30

\* Floats that are no numbers, written as fractions over 0: 0/0 and x/0.
NaN == [n |-> 0, d |-> 0]

Inf == [n |-> 1, d |-> 0]

\* x / y on float Series, for x, y >= 0: a zero divisor gives NaN or an
\* infinity and raises nothing.  (The zero of a window without drops is -0.0
\* and the infinity then negative; 100 / (1 + rs) is a zero of either sign.)
FDiv(x, y) ==
    IF y.n = 0 THEN (IF x.n = 0 THEN NaN ELSE Inf) ELSE RDiv(x, y)

\* x < y on floats: False when one side is NaN
FLess(x, y) == x # NaN /\ y # NaN /\ RLess(x, y)

\* 'rsi_period'
RsiPeriod == 14

\* delta.where(delta > 0, 0) and -delta.where(delta < 0, 0) over the last
\* RsiPeriod differences of the close, .rolling(window=14).mean()
AvgGain(deltas) ==
    RScale(RSum([j \in 1 .. Len(deltas) |-> RInt(IF deltas[j] > 0 THEN deltas[j] ELSE 0)]),
           1, RsiPeriod)

AvgLoss(deltas) ==
    RScale(RSum([j \in 1 .. Len(deltas) |-> RInt(IF deltas[j] < 0 THEN -deltas[j] ELSE 0)]),
           1, RsiPeriod)

\* rs = gain / loss; rsi = 100 - (100 / (1 + rs))
RSI(gain, loss) ==
    LET rs == FDiv(gain, loss)
    IN  IF rs = NaN THEN NaN
        ELSE IF rs = Inf THEN RInt(100)
        ELSE RSub(RInt(100), RDiv(RInt(100), RAdd(RInt(1), rs)))

\* MomentumStrategy.check_entry_signal
Momentum_check_entry_signal(n, current_rsi, current_sma_short, current_sma_long) ==
    IF n < MinMomentumCandles THEN FALSE
    ELSE /\ FLess(current_rsi, RInt(MomentumOversold))
         /\ current_sma_short > current_sma_long

\* MeanReversionStrategy: `if len(ohlcv_df) < 20`, rsi_oversold
MinMeanReversionCandles == 20

MeanReversionOversold == 20

\* MeanReversionStrategy.check_entry_signal; current_price <= current_lower * 1.02
MeanReversion_check_entry_signal(n, current_price, current_lower, current_rsi) ==
    IF n < MinMeanReversionCandles THEN FALSE
    ELSE /\ current_price * 100 <= current_lower * 102
         /\ FLess(current_rsi, RInt(MeanReversionOversold))

\* BaseStrategy.calculate_pnl: every direction but 'long' is taken as short
calculate_pnl(entry_price, current_price, position_size, direction) ==
    IF direction = "long"
    THEN RScale(position_size, current_price - entry_price, 1)
    ELSE RScale(position_size, entry_price - current_price, 1)

\* the lengths around a minimum lookback
Around(k) == {k - 1, k, k + 1}

\* last rows around the three breakout conditions, the candle of
\* test_entry_signal among them (open 90 under the lower band 95, high 250
\* over the band sum 240, close 95)
SignalRows ==
    [open : {90, 95}, high : {240, 250}, close : {90, 95, 100},
     bb20_lower : {95}, bb20_upper : {110}, bb80_upper : {130}]

\* price and moving averages; every combination is the reading of some series
\* of positive closes
RegimeLevels == {10, 11, 12}

BreakoutCalls ==
    [fn : {"check_entry_signal"}, n : Around(MinCandles), row : SignalRows]

RegimeCalls ==
    [fn : {"analyze_market_regime"}, n : Around(MinRegimeCandles),
     current_price : RegimeLevels, sma20 : RegimeLevels, sma60 : RegimeLevels,
     sma120 : RegimeLevels]

\* the last 14 differences of the close: `ups` rises of `up`, then `downs`
\* drops of `down`, then no change
Moves(ups, up, downs, down) ==
    [j \in 1 .. RsiPeriod |->
        IF j <= ups THEN up ELSE IF j <= ups + downs THEN -down ELSE 0]

\* windows with an RSI of 29 and 30 (momentum), of 19 and 20 (mean reversion),
\* a window of drops only, and the windows without a drop: rises only, and no
\* move at all
RsiWindows ==
    {Moves(1, 29, 1, 71), Moves(3, 1, 7, 1), Moves(1, 19, 1, 81), Moves(2, 1, 4, 2),
     Moves(0, 0, 3, 1),
     Moves(3, 1, 0, 0), Moves(RsiPeriod, 2, 0, 0), Moves(0, 0, 0, 0)}

MomentumCalls ==
    [fn : {"Momentum.check_entry_signal"}, n : Around(MinMomentumCandles),
     deltas : RsiWindows, current_sma_short : {10, 11}, current_sma_long : {10, 11}]

MeanReversionCalls ==
    [fn : {"MeanReversion.check_entry_signal"}, n : Around(MinMeanReversionCandles),
     current_price : {101, 102, 103}, current_lower : {100}, deltas : RsiWindows]

\* entries at 1 and at 100, closes below, at and above them (147 after a peak
\* of 150), a size of 1000
PnlCalls ==
    [fn : {"calculate_pnl"}, entry_price : {1, 100}, current_price : {1, 98, 100, 147},
     position_size : {RInt(1000)}, direction : {"long", "short", "LONG"}]

\* the engine's variables while a component is called on its own
engine_vars == <<len_data, ohlcv_data, i, position, trades, current_capital,
                 equity_curve, close_writes, results>>

EngineIdle ==
    /\ len_data = 0
    /\ ohlcv_data = <<>>
    /\ i = 0
    /\ position = None
    /\ trades = <<>>
    /\ current_capital = initial_capital
    /\ equity_curve = <<>>
    /\ close_writes = <<>>
    /\ results = None

InitSignals ==
    /\ pc = "call"
    /\ \/ \E c \in BreakoutCalls : call = <<c>>
       \/ \E c \in RegimeCalls : call = <<c>>
       \/ \E c \in MomentumCalls : call = <<c>>
       \/ \E c \in MeanReversionCalls : call = <<c>>
       \/ \E c \in PnlCalls : call = <<c>>
    /\ ret = None
    /\ NoJobs
    /\ ServiceIdle
    /\ EngineIdle

\* the call ends: the component returned a value or raised
Finish(outcome) ==
    /\ ret' = <<outcome>>
    /\ pc' = IF outcome.kind = "raise" THEN "raised" ELSE "returned"
    /\ UNCHANGED call
    /\ UNCHANGED <<engine_vars, service_vars>>
    /\ UNCHANGED job_vars

Calling(fn) == pc = "call" /\ call[1].fn = fn

CallCheckEntrySignal ==
    /\ Calling("check_entry_signal")
    /\ Finish(Return(check_entry_signal(call[1].n, call[1].row)))

CallAnalyzeMarketRegime ==
    /\ Calling("analyze_market_regime")
    /\ LET c == call[1]
       IN  Finish(analyze_market_regime(c.n, c.current_price, c.sma20, c.sma60, c.sma120))

CallMomentumSignal ==
    /\ Calling("Momentum.check_entry_signal")
    /\ LET c == call[1]
       IN  Finish(Return(Momentum_check_entry_signal(c.n, RSI(AvgGain(c.deltas), AvgLoss(c.deltas)),
                             c.current_sma_short, c.current_sma_long)))

CallMeanReversionSignal ==
    /\ Calling("MeanReversion.check_entry_signal")
    /\ LET c == call[1]
       IN  Finish(Return(MeanReversion_check_entry_signal(c.n, c.current_price,
                             c.current_lower,
                             RSI(AvgGain(c.deltas), AvgLoss(c.deltas)))))

CallCalculatePnl ==
    /\ Calling("calculate_pnl")
    /\ LET c == call[1]
       IN  Finish(Return(calculate_pnl(c.entry_price, c.current_price, c.position_size,
                                       c.direction)))

NextSignals ==
    \/ CallCheckEntrySignal
    \/ CallAnalyzeMarketRegime
    \/ CallMomentumSignal
    \/ CallMeanReversionSignal
    \/ CallCalculatePnl

SpecSignals == InitSignals /\ [][NextSignals]_vars

---------------------------------------------------------------------------
(* Properties of the signal components *)

\* the call of fn has ended
Called(fn) == pc \in {"returned", "raised"} /\ call[1].fn = fn

\* C12: on a series of at least 80 candles the Bollinger breakout entry signal
\* is true exactly when, on the last candle, open < lower band (20), high >
\* upper band (20) + upper band (80) and close > open, each strictly.
C12_BreakoutSignalIff ==
    Called("check_entry_signal") /\ call[1].n >= 80 =>
        LET row == call[1].row
        IN  /\ ret[1].kind = "return"
            /\ ret[1].value = TRUE <=>
                   /\ row.open < row.bb20_lower
                   /\ row.high > row.bb20_upper + row.bb80_upper
                   /\ row.close > row.open
            /\ row.open = row.bb20_lower => ret[1].value = FALSE
            /\ row.high = row.bb20_upper + row.bb80_upper => ret[1].value = FALSE
            /\ row.close = row.open => ret[1].value = FALSE

\* the candle of test_entry_signal on a series of exactly 80 candles gives true
C12_Witness ==
    /\ Called("check_entry_signal")
    /\ call[1].n = 80
    /\ call[1].row.open = 90 /\ call[1].row.bb20_lower = 95
    /\ call[1].row.high = 250 /\ call[1].row.bb20_upper + call[1].row.bb80_upper = 240
    /\ call[1].row.close = 95
    /\ ret = <<Return(TRUE)>>

\* the series of the call is shorter than the minimum lookback of its component
ShortSeries ==
    LET c == call[1]
    IN  \/ c.fn = "analyze_market_regime" /\ c.n < 120
        \/ c.fn = "check_entry_signal" /\ c.n < 80
        \/ c.fn = "Momentum.check_entry_signal" /\ c.n < 50
        \/ c.fn = "MeanReversion.check_entry_signal" /\ c.n < 20

Ended == pc \in {"returned", "raised"}

C14_RegimeClassification ==
    Called("analyze_market_regime") /\ call[1].n >= 120 =>
        LET c    == call[1]
            up   == c.current_price > c.sma20 /\ c.sma20 > c.sma60 /\ c.sma60 > c.sma120
            down == c.current_price < c.sma20 /\ c.sma20 < c.sma60 /\ c.sma60 < c.sma120
            tie  == c.current_price = c.sma20 \/ c.sma20 = c.sma60 \/ c.sma60 = c.sma120
        IN  /\ ret[1].kind = "return"
            /\ ret[1].value \in {"UPTREND", "DOWNTREND", "SIDEWAYS"}
            /\ ret[1].value = "UPTREND" <=> up
            /\ ret[1].value = "DOWNTREND" <=> down
            /\ ret[1].value = "SIDEWAYS" <=> ~up /\ ~down
            /\ tie => ret[1].value = "SIDEWAYS"
            /\ ~(up /\ down)

\* a chain that is strict except for SMA20 = SMA60 is classified SIDEWAYS on a
\* series of exactly 120 candles
C14_Witness ==
    /\ Called("analyze_market_regime")
    /\ call[1].n = 120
    /\ call[1].current_price > call[1].sma20
    /\ call[1].sma20 = call[1].sma60
    /\ call[1].sma60 > call[1].sma120
    /\ ret = <<Return("SIDEWAYS")>>

---------------------------------------------------------------------------
(* MarketAnalyzer.scan_universe and _calculate_weighted_score of             *)
(* backend/app/core/market_analysis.py.                                      *)
(*   - A symbol "BASE/QUOTE" is the record [base, quote]; get_all_tickers    *)
(*     builds the tickers from a dict keyed by symbol, so the symbols of a   *)
(*     ticker list are distinct.                                             *)
(*   - change_pct and quote_volume are integers.                             *)
(*   - A score is a float: the model keeps its value in tenths together with *)
(*     the distance, in representable doubles, between the double the code   *)
(*     computes and the double nearest to that many tenths.                  *)

\* ticker['symbol'].endswith('/USDT')
EndsWithUSDT(symbol) == symbol.quote = "USDT"

usdt_pairs(all_tickers_data) ==
    SelectSeq(all_tickers_data, LAMBDA ticker : EndsWithUSDT(ticker.symbol))

\* sorted(..., reverse=True) on (key, item) pairs: a stable sort, items of equal
\* key keep their order
RECURSIVE InsertDesc(_, _)
InsertDesc(sorted, x) ==
    IF sorted = <<>> THEN <<x>>
    ELSE IF Head(sorted).key >= x.key THEN <<Head(sorted)>> \o InsertDesc(Tail(sorted), x)
         ELSE <<x>> \o sorted

RECURSIVE SortDesc(_)
SortDesc(xs) ==
    IF xs = <<>> THEN <<>>
    ELSE InsertDesc(SortDesc(SubSeq(xs, 1, Len(xs) - 1)), xs[Len(xs)])

Items(keyed) == [k \in 1 .. Len(keyed) |-> keyed[k].item]

\* sorted(xs, key=..., reverse=True), keys[k] being the key of xs[k]
SortedDesc(xs, keys) ==
    Items(SortDesc([k \in 1 .. Len(xs) |-> [key |-> keys[k], item |-> xs[k]]]))

\* sorted(xs, key=...), keys[k] being the key of xs[k]
SortedAsc(xs, keys) ==
    Items(SortDesc([k \in 1 .. Len(xs) |-> [key |-> -keys[k], item |-> xs[k]]]))

\* xs[:n] and xs[-n:]: slices clip to the list
Take(xs, n) == SubSeq(xs, 1, IF Len(xs) < n THEN Len(xs) ELSE n)

TakeLast(xs, n) == SubSeq(xs, IF Len(xs) > n THEN Len(xs) - n + 1 ELSE 1, Len(xs))

\* the candidate window [:10] and the number of picks [:5]
TopWindow == 10

Picks == 5

\* the enumerate() index of the symbol in the list, Absent when it is not there
Absent == -1

IndexIn(list, symbol) ==
    IF \E k \in 1 .. Len(list) : list[k].symbol = symbol
    THEN (CHOOSE k \in 1 .. Len(list) : list[k].symbol = symbol) - 1
    ELSE Absent

\* The index pairs (change index, volume index) for which the double computed by
\* 0 + (10 - i) * 0.6 + (10 - j) * 0.4 is the next double above, or the next
\* double below, the double nearest to the exact sum.
RoundsUp ==
    {<<3, 1>>, <<3, 4>>, <<3, 6>>, <<3, 9>>, <<5, 3>>, <<6, 4>>, <<8, 4>>, <<8, 7>>,
     <<9, 2>>, <<9, 3>>, <<9, 4>>, <<9, 7>>, <<Absent, 3>>, <<Absent, 4>>, <<Absent, 7>>}

RoundsDown ==
    {<<1, 0>>, <<1, 5>>, <<1, 8>>, <<1, Absent>>, <<4, 1>>, <<4, 6>>, <<4, 8>>,
     <<4, 9>>, <<4, Absent>>, <<7, 8>>, <<7, 9>>, <<7, Absent>>}

\* scores[symbol]['score']: 0, += (10 - ci) * change_weight for the change index
\* ci, += (10 - vi) * volume_weight for the volume index vi; the weights are 0.6
\* and 0.4 in every call
Score(ci, vi) ==
    [tenths |-> (IF ci = Absent THEN 0 ELSE (10 - ci) * 6)
                + (IF vi = Absent THEN 0 ELSE (10 - vi) * 4),
     ulps   |-> IF <<ci, vi>> \in RoundsUp THEN 1
                ELSE IF <<ci, vi>> \in RoundsDown THEN -1 ELSE 0]

\* the order of two floats: by tenths, then by the distance in doubles
ScoreKey(score) == score.tenths * 3 + score.ulps

\* _calculate_weighted_score(change_list, volume_list, 0.6, 0.4) for lists of at
\* most ten tickers: the entries of the scores dict in insertion order (the
\* change list, then the symbols of the volume list not seen before), sorted by
\* descending score
calculate_weighted_score(change_list, volume_list) ==
    LET volume_only == SelectSeq(volume_list,
                           LAMBDA item : IndexIn(change_list, item.symbol) = Absent)
        entries     == change_list \o volume_only
        scores      == [k \in 1 .. Len(entries) |->
                            ScoreKey(Score(IndexIn(change_list, entries[k].symbol),
                                           IndexIn(volume_list, entries[k].symbol)))]
    IN  SortedDesc(entries, scores)

\* key=lambda x: x.get('change_pct', 0) and key=lambda x: x.get('quote_volume', 0)
\* over a list of tickers
Change(tickers) == [k \in 1 .. Len(tickers) |-> tickers[k].change_pct]

Volume(tickers) == [k \in 1 .. Len(tickers) |-> tickers[k].quote_volume]

Directed(selected, direction) ==
    [k \in 1 .. Len(selected) |-> [symbol |-> selected[k].symbol, direction |-> direction]]

\* scan_universe returning the first five usdt pairs of the ticker list
scan_universe_Unranked(market_regime, all_tickers_data) ==
    Return(Directed(Take(usdt_pairs(all_tickers_data), Picks),
                    IF market_regime = "DOWNTREND" THEN "short" ELSE "long"))

\* scan_universe without the filter on the quote currency
scan_universe_Unfiltered(market_regime, all_tickers_data) ==
    LET sorted_by_volume == SortedDesc(all_tickers_data, Volume(all_tickers_data))
        top_volume       == Take(sorted_by_volume, TopWindow)
        top_change       == Take(SortedDesc(all_tickers_data, Change(all_tickers_data)), TopWindow)
    IN  Return(Directed(Take(calculate_weighted_score(top_change, top_volume), Picks),
                        IF market_regime = "DOWNTREND" THEN "short" ELSE "long"))

\* scan_universe indexing the tenth candidate instead of slicing
scan_universe_NeedsTen(market_regime, all_tickers_data) ==
    IF Len(usdt_pairs(all_tickers_data)) < TopWindow THEN Raise("IndexError")
    ELSE scan_universe_Unranked(market_regime, all_tickers_data)

\* MarketAnalyzer.scan_universe
scan_universe(market_regime, all_tickers_data) ==
    LET pairs            == usdt_pairs(all_tickers_data)
        sorted_by_volume == SortedDesc(pairs, Volume(pairs))
        top_volume       == Take(sorted_by_volume, TopWindow)
    IN  IF market_regime = "UPTREND"
        THEN LET sorted_by_change == SortedDesc(pairs, Change(pairs))
                 top_change       == Take(sorted_by_change, TopWindow)
                 selected         == calculate_weighted_score(top_change, top_volume)
             IN  Return(Directed(Take(selected, Picks), "long"))
        ELSE IF market_regime = "DOWNTREND"
        THEN LET sorted_by_change == SortedAsc(pairs, Change(pairs))
                 top_change       == Take(sorted_by_change, TopWindow)
                 selected         == calculate_weighted_score(top_change, top_volume)
             IN  Return(Directed(Take(selected, Picks), "short"))
        ELSE LET sorted_by_change == SortedDesc(pairs, Change(pairs))
                 top_gainers      == Take(sorted_by_change, TopWindow)
                 top_losers       == TakeLast(sorted_by_change, TopWindow)
                 selected_long    ==
                     Take(calculate_weighted_score(top_gainers, top_volume), Picks)
                 selected_short   ==
                     Take(calculate_weighted_score(top_losers, top_volume), Picks)
             IN  Return(Directed(selected_long, "long") \o Directed(selected_short, "short"))

\* Ticker lists.  The k-th ticker of a list has the symbol of base k.
SmallUniverse == 3

PermutedUniverse == 5

LargeUniverse == 12

Ticker(k, quote, change_pct, quote_volume) ==
    [symbol |-> [base |-> k, quote |-> quote],
     change_pct |-> change_pct, quote_volume |-> quote_volume]

\* up to SmallUniverse tickers of either quote currency, with equal and unequal
\* changes and volumes
SmallTickerLists ==
    UNION {
        {[k \in 1 .. n |-> Ticker(k, f[k].quote, f[k].change_pct, f[k].quote_volume)] :
            f \in [1 .. n -> [quote : {"USDT", "BTC"}, change_pct : {0, 1},
                              quote_volume : {0, 1}]]} :
        n \in 0 .. SmallUniverse }

\* PermutedUniverse usdt tickers in the order of their change, in every order
\* of their volume
PermutedTickerLists ==
    {[k \in 1 .. PermutedUniverse |-> Ticker(k, "USDT", PermutedUniverse - k, p[k])] :
        p \in Permutations(1 .. PermutedUniverse)}

\* LargeUniverse tickers, all but the second in usdt, in the order of their
\* change, the order of their volume rotated by r
LargeTickerLists ==
    {[k \in 1 .. LargeUniverse |->
         Ticker(k, IF k = 2 THEN "BTC" ELSE "USDT", LargeUniverse - k,
                (k + r) % LargeUniverse)] :
        r \in 0 .. LargeUniverse - 1}

TickerLists == SmallTickerLists \cup PermutedTickerLists \cup LargeTickerLists

Regimes == {"UPTREND", "DOWNTREND", "SIDEWAYS"}

ScanCalls ==
    [fn : {"scan_universe"}, market_regime : Regimes, all_tickers_data : TickerLists]

\* the candidate lists scan_universe builds, cut to every length
ScoreCalls ==
    {[fn |-> "_calculate_weighted_score",
      change_list |-> Take(SortedDesc(u, Change(u)), a),
      volume_list |-> Take(SortedDesc(u, Volume(u)), b)] :
        u \in PermutedTickerLists, a \in 0 .. PermutedUniverse, b \in 0 .. PermutedUniverse}

InitUniverse ==
    /\ pc = "call"
    /\ \/ \E c \in ScanCalls : call = <<c>>
       \/ \E c \in ScoreCalls : call = <<c>>
    /\ ret = None
    /\ NoJobs
    /\ ServiceIdle
    /\ EngineIdle

CallScanUniverse ==
    /\ Calling("scan_universe")
    /\ Finish(scan_universe(call[1].market_regime, call[1].all_tickers_data))

CallCalculateWeightedScore ==
    /\ Calling("_calculate_weighted_score")
    /\ Finish(Return(calculate_weighted_score(call[1].change_list, call[1].volume_list)))

NextUniverse ==
    \/ CallScanUniverse
    \/ CallCalculateWeightedScore

SpecUniverse == InitUniverse /\ [][NextUniverse]_vars

---------------------------------------------------------------------------
(* Properties of the universe scan *)

\* the result of the call, a list of [symbol, direction]
Picked == ret[1].value

CountOf(direction) == Cardinality({k \in 1 .. Len(Picked) : Picked[k].direction = direction})

\* C15: scan_universe returns only symbols ending in /USDT; for UPTREND at most
\* 5 entries, all long; for DOWNTREND at most 5 entries, all short; for SIDEWAYS
\* at most 10 entries, at most 5 long followed by at most 5 short.
C15_ScanShape ==
    Called("scan_universe") =>
        /\ pc = "returned"
        /\ \A k \in 1 .. Len(Picked) : Picked[k].symbol.quote = "USDT"
        /\ call[1].market_regime = "UPTREND" =>
               /\ Len(Picked) <= 5
               /\ \A k \in 1 .. Len(Picked) : Picked[k].direction = "long"
        /\ call[1].market_regime = "DOWNTREND" =>
               /\ Len(Picked) <= 5
               /\ \A k \in 1 .. Len(Picked) : Picked[k].direction = "short"
        /\ call[1].market_regime = "SIDEWAYS" =>
               /\ Len(Picked) <= 10
               /\ CountOf("long") <= 5
               /\ CountOf("short") <= 5
               /\ \A k \in 1 .. Len(Picked) : Picked[k].direction \in {"long", "short"}
               /\ \A k \in 1 .. Len(Picked) : \A m \in 1 .. Len(Picked) :
                      Picked[k].direction = "long" /\ Picked[m].direction = "short"
                          => k < m

\* a SIDEWAYS scan of a list with more than ten usdt pairs and another pair
\* returns five long picks followed by five short picks
C15_Witness ==
    /\ Called("scan_universe")
    /\ call[1].market_regime = "SIDEWAYS"
    /\ Len(usdt_pairs(call[1].all_tickers_data)) > 10
    /\ Len(usdt_pairs(call[1].all_tickers_data)) < Len(call[1].all_tickers_data)
    /\ Len(Picked) = 10
    /\ \A k \in 1 .. 5 : Picked[k].direction = "long"
    /\ \A k \in 6 .. 10 : Picked[k].direction = "short"

\* the result of _calculate_weighted_score, a list of tickers
Ranked == ret[1].value

\* the symbols in the order the function first meets them: the change list,
\* then the symbols of the volume list that are not in the change list
Encountered ==
    LET change_list == call[1].change_list
        volume_list == call[1].volume_list
    IN  change_list \o SelectSeq(volume_list,
                           LAMBDA item : IndexIn(change_list, item.symbol) = Absent)

\* ten times 0.6 * (10 - index in the change list) + 0.4 * (10 - index in the
\* volume list), a list the symbol is not in counting for nothing
TenthsOf(symbol) ==
    LET ci == IndexIn(call[1].change_list, symbol)
        vi == IndexIn(call[1].volume_list, symbol)
    IN  (IF ci = Absent THEN 0 ELSE 6 * (10 - ci))
        + (IF vi = Absent THEN 0 ELSE 4 * (10 - vi))

\* C16: _calculate_weighted_score returns every symbol of the two lists once,
\* sorted by descending score 0.6 * (10 - change index) + 0.4 * (10 - volume
\* index) (only the lists the symbol is in count), symbols of equal score in
\* the order first encountered.
C16_RankedByScoreTiesStable ==
    Called("_calculate_weighted_score") =>
        /\ pc = "returned"
        /\ Len(Ranked) = Len(Encountered)
        /\ \A k \in 1 .. Len(Encountered) :
               \E m \in 1 .. Len(Ranked) : Ranked[m] = Encountered[k]
        /\ \A k \in 1 .. Len(Ranked) : \A m \in 1 .. Len(Ranked) :
               k < m =>
                   \/ TenthsOf(Ranked[k].symbol) > TenthsOf(Ranked[m].symbol)
                   \/ /\ TenthsOf(Ranked[k].symbol) = TenthsOf(Ranked[m].symbol)
                      /\ IndexIn(Encountered, Ranked[k].symbol)
                             < IndexIn(Encountered, Ranked[m].symbol)

\* the usdt pairs of the scanned list
Available == usdt_pairs(call[1].all_tickers_data)

Smaller(a, b) == IF a < b THEN a ELSE b

\* C17: a scan of a list with fewer than 10 usdt pairs (none included) does not
\* fail in any regime: it returns picks taken from the pairs available, as many
\* as the clipped windows hold (up to 5 per direction).
C17_SmallUniverseClipped ==
    Called("scan_universe") /\ Len(Available) < 10 =>
        /\ pc = "returned"
        /\ ret[1].kind = "return"
        /\ \A k \in 1 .. Len(Picked) :
               \E m \in 1 .. Len(Available) : Available[m].symbol = Picked[k].symbol
        /\ call[1].market_regime = "UPTREND" =>
               CountOf("long") = Smaller(5, Len(Available)) /\ CountOf("short") = 0
        /\ call[1].market_regime = "DOWNTREND" =>
               CountOf("short") = Smaller(5, Len(Available)) /\ CountOf("long") = 0
        /\ call[1].market_regime = "SIDEWAYS" =>
               /\ CountOf("long") = Smaller(5, Len(Available))
               /\ CountOf("short") = Smaller(5, Len(Available))

\* scans of an empty list and of a list of only non-usdt pairs return the empty
\* list, and a SIDEWAYS scan of three usdt pairs returns three long and three
\* short picks
C17_Witness ==
    /\ Called("scan_universe")
    /\ pc = "returned"
    /\ call[1].market_regime = "SIDEWAYS"
    /\ Len(Available) = 3
    /\ CountOf("long") = 3
    /\ CountOf("short") = 3

---------------------------------------------------------------------------
(* The performance summary on longer runs.  The run is taken at the end of   *)
(* its loop, flat, after a number of episodes of three candles each: a       *)
(* breakout candle that opens the position, a candle on which it is held and *)
(* a candle on which it is closed.  From there the engine's own finishing    *)
(* steps (EndFlat, EmptyCurveError) compute the summary.                     *)

\* the run has gone through at most MaxTrades episodes
MaxTrades == 3

\* the closing candles of an episode, each with the candle held before it:
\* stop loss at -5%, trailing stop at the entry price (pnl 0), trailing stop at
\* +50% under a high of +60%, take profit at +200%
Episodes ==
    {[hold |-> 19502, close |-> 18905],
     [hold |-> 20497, close |-> 19900],
     [hold |-> 31840, close |-> 29850],
     [hold |-> 20298, close |-> 59700]}

\* the state of the loop after the episodes eps, starting at candle index first
RECURSIVE AfterEpisodes(_)
AfterEpisodes(eps) ==
    IF eps = <<>>
    THEN [trades |-> <<>>, equity_curve |-> <<>>, current_capital |-> initial_capital,
          candles |-> <<>>, close_writes |-> <<>>]
    ELSE LET before        == AfterEpisodes(SubSeq(eps, 1, Len(eps) - 1))
             ep            == eps[Len(eps)]
             entry_date    == LoopStart + 3 * (Len(eps) - 1)
             entry_price   == get_entry_price(BreakoutCandle)
             position_size == PositionSize(before.current_capital)
             stop_info     == set_trailing_stop(entry_price)
             held          == UpdateHighest(entry_price, ep.hold)
             highest       == UpdateHighest(held, ep.close)
             pos           == [entry_date    |-> entry_date,
                               entry_price   |-> entry_price,
                               size          |-> position_size,
                               direction     |-> "LONG",
                               highest_price |-> highest]
             opened        == [date              |-> entry_date,
                               symbol            |-> "BTC/USDT",
                               action            |-> "BUY",
                               direction         |-> "LONG",
                               price             |-> entry_price,
                               size              |-> position_size,
                               pnl               |-> RInt(0),
                               stop_loss         |-> stop_info.stop_loss,
                               max_profit_target |-> stop_info.max_profit_target]
             pnl           == Pnl(ep.close, entry_price, position_size)
             new_capital   == RAdd(before.current_capital, pnl)
         IN  [trades |-> Append(before.trades,
                             ClosedTrade(opened, pnl, entry_date + 2, ep.close,
                                         CloseReason(ep.close, entry_price, highest), pos)),
              equity_curve |-> before.equity_curve \o
                                   << EquityPoint(entry_date, before.current_capital),
                                      EquityPoint(entry_date + 1, before.current_capital),
                                      EquityPoint(entry_date + 2, new_capital) >>,
              current_capital |-> new_capital,
              candles |-> before.candles \o
                              << BreakoutCandle, QuietCandle(ep.hold), QuietCandle(ep.close) >>,
              close_writes |-> Append(before.close_writes, 1)]

EpisodeRuns == UNION {[1 .. n -> Episodes] : n \in 0 .. MaxTrades}

\* The loop has ended flat: after the episodes eps, or, with no episode, after
\* `quiet` candles without a signal (none when the series has 80 candles).
InitSummary ==
    \E eps \in EpisodeRuns : \E quiet \in 0 .. 1 :
        LET run == AfterEpisodes(eps)
            n   == IF eps = <<>> THEN quiet ELSE 3 * Len(eps)
        IN  /\ pc = "loop"
            /\ len_data = LoopStart + n
            /\ i = LoopStart + n
            /\ ohlcv_data =
                   [k \in (LoopStart - 1) .. (LoopStart + n - 1) |->
                        IF k = LoopStart - 1 \/ eps = <<>> THEN QuietCandle(20000)
                        ELSE run.candles[k - LoopStart + 1]]
            /\ position = None
            /\ trades = run.trades
            /\ current_capital = run.current_capital
            /\ equity_curve =
                   IF eps = <<>>
                   THEN [k \in 1 .. quiet |-> EquityPoint(LoopStart + k - 1, initial_capital)]
                   ELSE run.equity_curve
            /\ close_writes = run.close_writes
            /\ results = None
            /\ call = None
            /\ ret = None
            /\ NoJobs
            /\ ServiceIdle

NextSummary ==
    \/ EndFlat
    \/ EmptyCurveError

SpecSummary == InitSummary /\ [][NextSummary]_vars

---------------------------------------------------------------------------
(* Properties of the performance summary *)

\* the run has returned its result
Returned == pc = "done" /\ results # None

ClosedCount == Cardinality({k \in 1 .. Len(trades) : IsClosed(trades[k])})

WinCount == Cardinality({k \in 1 .. Len(trades) : trades[k].pnl.n > 0})

\* q is r rounded to two decimals: a multiple of 1/100 at most 1/200 away from r
RoundedTo2(q, r) ==
    /\ 100 % q.d = 0
    /\ Abs(RSub(q, r).n) * 200 <= RSub(q, r).d

\* C18 as stated: total_trades counts the closed trades, winning_trades the
\* trades with pnl > 0, and win_rate is winning_trades / total_trades * 100,
\* 0 without trades.
C18_WinRateIsQuotient ==
    Returned =>
        LET summary == results[1].summary
        IN  /\ summary.total_trades = ClosedCount
            /\ summary.winning_trades = WinCount
            /\ summary.winning_trades <= summary.total_trades
            /\ summary.win_rate =
                   IF summary.total_trades = 0 THEN RInt(0)
                   ELSE Frac(summary.winning_trades * 100, summary.total_trades)

\* C18: total_trades counts the closed trades, winning_trades the trades with
\* pnl > 0 (never more than total_trades), and win_rate is winning_trades /
\* total_trades * 100 rounded to two decimals, 0 without trades.
C18_WinRateRounded ==
    Returned =>
        LET summary == results[1].summary
        IN  /\ summary.total_trades = ClosedCount
            /\ summary.winning_trades = WinCount
            /\ summary.winning_trades <= summary.total_trades
            /\ IF summary.total_trades = 0 THEN summary.win_rate = RInt(0)
               ELSE RoundedTo2(summary.win_rate,
                               Frac(summary.winning_trades * 100, summary.total_trades))

\* three closed trades, one of them won and one closed at pnl 0: the win rate
\* is reported as 33.33
C18_Witness ==
    /\ Returned
    /\ results[1].summary.total_trades = 3
    /\ results[1].summary.winning_trades = 1
    /\ \E k \in 1 .. Len(trades) : trades[k].pnl = RInt(0)
    /\ results[1].summary.win_rate = Frac(3333, 100)

\* C19: total_pnl is the sum of the pnl of all trades of the ledger,
\* final_capital is initial_capital + total_pnl and total_return is
\* (final_capital - initial_capital) / initial_capital * 100.
C19_PnlCapitalReturn ==
    Returned =>
        LET locals == results[1].locals
        IN  /\ locals.total_pnl = RealizedBefore(trades, Len(trades) + 1)
            /\ locals.final_capital = RAdd(initial_capital, locals.total_pnl)
            /\ locals.final_capital = current_capital
            /\ RMul(locals.total_return, initial_capital)
                   = RScale(RSub(locals.final_capital, initial_capital), 100, 1)

\* a winning and a losing trade: total_pnl is neither of the two pnl and the
\* return is not zero
C19_Witness ==
    /\ Returned
    /\ Len(trades) >= 2
    /\ \E k \in 1 .. Len(trades) : trades[k].pnl.n > 0
    /\ \E k \in 1 .. Len(trades) : trades[k].pnl.n < 0
    /\ results[1].locals.total_pnl = RealizedBefore(trades, Len(trades) + 1)
    /\ results[1].locals.total_return.n # 0

\* the equity e is the largest (smallest) of the curve
IsMaxEquity(e) ==
    /\ \E k \in 1 .. Len(equity_curve) : equity_curve[k].equity = e
    /\ \A k \in 1 .. Len(equity_curve) : ~RLess(e, equity_curve[k].equity)

IsMinEquity(e) ==
    /\ \E k \in 1 .. Len(equity_curve) : equity_curve[k].equity = e
    /\ \A k \in 1 .. Len(equity_curve) : ~RLess(equity_curve[k].equity, e)

\* C20: max_drawdown is (max(equity) - min(equity)) / max(equity) * 100 over
\* all points of the curve, wherever in the curve the two occur.
C20_DrawdownIsRange ==
    Returned =>
        \E k \in 1 .. Len(equity_curve) : \E m \in 1 .. Len(equity_curve) :
            LET hi == equity_curve[k].equity
                lo == equity_curve[m].equity
            IN  /\ IsMaxEquity(hi)
                /\ IsMinEquity(lo)
                /\ RMul(results[1].locals.mdd, hi) = RScale(RSub(hi, lo), 100, 1)

\* a curve that never falls, from its minimum at the first point to its maximum
\* at the last, reports the whole rise as drawdown
C20_Witness ==
    /\ Returned
    /\ \A k \in 1 .. Len(equity_curve) - 1 :
           ~RLess(equity_curve[k + 1].equity, equity_curve[k].equity)
    /\ RLess(equity_curve[1].equity, equity_curve[Len(equity_curve)].equity)
    /\ results[1].locals.mdd.n > 0

\* the sums of the pnl of the trades with pnl > 0 and with pnl < 0, and the
\* number of the latter
GrossWin ==
    RealizedBefore([k \in 1 .. Len(trades) |->
                       IF trades[k].pnl.n > 0 THEN trades[k] ELSE [pnl |-> RInt(0)]],
                   Len(trades) + 1)

GrossLoss ==
    RealizedBefore([k \in 1 .. Len(trades) |->
                       IF trades[k].pnl.n < 0 THEN trades[k] ELSE [pnl |-> RInt(0)]],
                   Len(trades) + 1)

LossCount == Cardinality({k \in 1 .. Len(trades) : trades[k].pnl.n < 0})

\* C21 as stated: profit_factor is the sum of the winning pnls over the absolute
\* sum of the losing pnls, and 0 when no trade lost.
C21_ProfitFactorIsQuotient ==
    Returned =>
        results[1].statistics.profit_factor =
            IF LossCount = 0 THEN RInt(0) ELSE RDiv(GrossWin, RNeg(GrossLoss))

\* C21: profit_factor is the sum of the winning pnls over the absolute sum of
\* the losing pnls rounded to two decimals, and it is 0 when no trade lost, also
\* when there is no trade at all.
C21_ProfitFactorRounded ==
    Returned =>
        IF LossCount = 0 THEN results[1].statistics.profit_factor = RInt(0)
        ELSE RoundedTo2(results[1].statistics.profit_factor,
                        RDiv(GrossWin, RNeg(GrossLoss)))

\* a run with winning trades and no losing trade reports the profit factor 0
C21_Witness ==
    /\ Returned
    /\ WinCount >= 2
    /\ LossCount = 0
    /\ GrossWin.n > 0
    /\ results[1].statistics.profit_factor = RInt(0)

\* C22: avg_win is the mean of the pnl of the trades with pnl > 0, avg_loss the
\* mean of the pnl of the trades with pnl < 0 (their sum over their number),
\* each 0 when there is no such trade, whatever trades closed at pnl 0 the
\* ledger holds; both as reported, to two decimals.
C22_AveragesOverOwnCount ==
    Returned =>
        /\ IF WinCount = 0 THEN results[1].statistics.avg_win = RInt(0)
           ELSE RoundedTo2(results[1].statistics.avg_win, RScale(GrossWin, 1, WinCount))
        /\ IF LossCount = 0 THEN results[1].statistics.avg_loss = RInt(0)
           ELSE RoundedTo2(results[1].statistics.avg_loss, RScale(GrossLoss, 1, LossCount))

---------------------------------------------------------------------------
(* The backtest job API of api/backtest.py: create_backtest, the background *)
(* task run_backtest, get_backtest_result and delete_backtest_job.  The     *)
(* handlers hold no await and run to their end in one step of the event     *)
(* loop.  run_backtest awaits simulate_backtest, a coroutine that never     *)
(* suspends: the loop runs nothing else between the two steps of a task.    *)
(* Dates are counted in hours.                                              *)

\* the number of requests that create_backtest accepts in a behaviour
MaxJobs == 2

\* StrategyFactory._strategies
Strategies == {"momentum_v1", "mean_reversion_v1", "bollinger_breakout_v1"}

\* a factory that hands out an instance for any id
get_strategy_AnyId(strategy_id) == Return(strategy_id)

\* StrategyFactory.get_strategy: the instance is named by its id
get_strategy(strategy_id) ==
    IF strategy_id \notin Strategies THEN Raise("ValueError") ELSE Return(strategy_id)

HTTPException(status_code) == Raise([status_code |-> status_code])

\* str(uuid.uuid4()): the k-th identifier drawn, different from all others
uuid4(k) == "uuid-" \o ToString(k)

\* pd.date_range(start, end, freq='1H'): both ends are candles
CandleCount(request) ==
    IF request.end_date < request.start_date THEN 0
    ELSE request.end_date - request.start_date + 1

\* np.random.normal draws stay within this many standard deviations (the
\* generator turns 53-bit uniforms into normals by the polar method)
NormalReach == 12

\* the draws the model takes: both ends of the reach and the mean
Draws == {-NormalReach, 0, NormalReach}

\* np.linspace(0, 0.2, n), in percent: the ends of the trend
TrendLevels == {0, 20}

\* prices = base_price * (1 + trend + noise) in percent of base_price, the
\* noise being normal(0, 0.02)
GeneratedPrice(trend, z) == 100 + trend + 2 * z

\* price * (1 + normal(0, volatility)) with volatility 0.01, in 1/10000 of
\* base_price
Shaken(price, z) == price * (100 + z)

\* The last row of a generated frame with its bands, in millionths of
\* base_price: the 60 oldest closes of the 80-window at `old`, the next 19 at
\* `recent`, then the candle made from `price` and the draws zo, zh, zc (the
\* low, which no signal reads, shares the draw of the high).  Each band is
\* given as its mean (the standard deviation taken as 0), the value most
\* favourable to an entry signal.
GeneratedRow(old, recent, price, zo, zh, zc) ==
    LET open  == Shaken(price, zo) * 100
        close == Shaken(price, zc) * 100
        sum20 == 19 * recent * 100 + close
        sum80 == 60 * old * 100 + sum20
    IN  [open       |-> open,
         high       |-> Max(Shaken(price, zo), price * 100) * (100 + Abs(zh)),
         low        |-> (IF Shaken(price, zo) < price * 100 THEN Shaken(price, zo)
                         ELSE price * 100) * (100 - Abs(zh)),
         close      |-> close,
         bb20_lower |-> (sum20 + 19) \div 20,
         bb20_upper |-> sum20 \div 20,
         bb80_upper |-> sum80 \div 80]

\* the closes a window can hold
GeneratedCloses(trends) ==
    {Shaken(GeneratedPrice(t, z), zc) : t \in trends, z \in Draws, zc \in Draws}

\* generate_test_ohlcv_data: the rows that the loop can meet
GeneratedRows ==
    {GeneratedRow(old, recent, GeneratedPrice(t, z), zo, zh, zc) :
        old \in GeneratedCloses(TrendLevels), recent \in GeneratedCloses(TrendLevels),
        t \in TrendLevels, z \in Draws, zo \in Draws, zh \in Draws, zc \in Draws}

\* some generated candle gives an entry signal
GeneratedSignal == \E row \in GeneratedRows : check_entry_signal(LoopStart + 1, row)

\* the run that never finds a signal: no trade, the capital at every point
FlatRun(n) ==
    [trades |-> <<>>,
     equity_curve |-> [k \in 1 .. n |-> EquityPoint(LoopStart + k - 1, initial_capital)]]

\* the runs over n candles after index 80: the flat one and, if a generated
\* candle can give a signal, those of whole episodes
GeneratedRuns(n) ==
    {FlatRun(n)} \cup
    IF GeneratedSignal
    THEN {AfterEpisodes(eps) : eps \in {e \in EpisodeRuns : e # <<>> /\ 3 * Len(e) = n}}
    ELSE {}

\* run_bollinger_breakout_backtest over the candles that generate_test_ohlcv_data
\* draws from numpy's unseeded generator.  The return on a capital of 0 is a
\* float division by zero, the drawdown of an empty curve is max([]).
run_bollinger_breakout_backtest(request) ==
    IF request.initial_capital.n = 0 THEN {Raise("ZeroDivisionError")}
    ELSE IF CandleCount(request) <= LoopStart THEN {Raise("ValueError")}
    ELSE {Return(r) :
            r \in UNION {Summary(run.trades, run.equity_curve) :
                           run \in GeneratedRuns(CandleCount(request) - LoopStart)}}

\* (request.end_date - request.start_date).days
Days(request) == (request.end_date - request.start_date) \div 24

\* the simulation of the other strategies, drawn from `random`: each day may add a
\* trade; it divides by initial_capital and takes max() of the daily equities
RandomSimulation(request) ==
    IF request.initial_capital.n = 0 THEN {Raise("ZeroDivisionError")}
    ELSE IF Days(request) <= 0 THEN {Raise("ValueError")}
    ELSE {Return([summary |-> [total_trades |-> k]]) : k \in 0 .. 1}

\* simulate_backtest: the set of its possible outcomes
simulate_backtest(request) ==
    IF request.strategy_id = "bollinger_breakout_v1"
    THEN run_bollinger_breakout_backtest(request)
    ELSE RandomSimulation(request)

\* the requests that pass the BacktestRequest model: any strategy_id string, any
\* two datetimes, any float as initial_capital
StrategyIds == {"bollinger_breakout_v1", "momentum_v1", "unknown_v1"}

DateRanges == {<<12, 0>>, <<12, 12>>, <<0, 12>>, <<0, 82>>}

Capitals == {RInt(0), initial_capital}

\* a capital of 0 is requested with the strategy and the dates that complete
\* on a positive capital
BacktestRequest ==
    {r \in {[strategy_id |-> sid, start_date |-> dr[1], end_date |-> dr[2],
             initial_capital |-> c] : sid \in StrategyIds, dr \in DateRanges, c \in Capitals} :
        r.initial_capital.n = 0 =>
            /\ r.strategy_id = "bollinger_breakout_v1"
            /\ r.start_date = 0
            /\ r.end_date = 82}

JobIds == {uuid4(k) : k \in 1 .. MaxJobs}

InitJobs ==
    /\ pc = "serving"
    /\ call = None
    /\ ret = None
    /\ NoJobs
    /\ ServiceIdle
    /\ EngineIdle

\* the event loop is not inside a run_backtest task
LoopFree == \A k \in 1 .. Len(background_tasks) : background_tasks[k].at # "running"

\* a handler ran from its call to its response
Respond(c, outcome) ==
    /\ LoopFree
    /\ call' = <<c>>
    /\ ret' = <<outcome>>
    /\ UNCHANGED pc
    /\ UNCHANGED <<engine_vars, service_vars>>

\* POST /backtest
CreateBacktest(request) ==
    LET c == [fn |-> "create_backtest", request |-> request]
        job_id == uuid4(Len(background_tasks) + 1)
    IN  IF get_strategy(request.strategy_id).kind = "raise"
        THEN /\ Respond(c, HTTPException(400))
             /\ UNCHANGED job_vars
        ELSE IF request.start_date >= request.end_date
        THEN /\ Respond(c, HTTPException(400))
             /\ UNCHANGED job_vars
        ELSE /\ Len(background_tasks) < MaxJobs
             /\ db_jobs' = Append(db_jobs, [job_id          |-> Len(db_jobs) + 1,
                                            strategy_id     |-> request.strategy_id,
                                            start_date      |-> request.start_date,
                                            end_date        |-> request.end_date,
                                            initial_capital |-> request.initial_capital,
                                            status          |-> "PENDING"])
             /\ backtest_jobs' =
                    [j \in DOMAIN backtest_jobs \cup {job_id} |->
                        IF j = job_id
                        THEN [job_id          |-> job_id,
                              strategy_id     |-> request.strategy_id,
                              start_date      |-> request.start_date,
                              end_date        |-> request.end_date,
                              initial_capital |-> request.initial_capital,
                              status          |-> "PENDING",
                              results         |-> None,
                              error           |-> None]
                        ELSE backtest_jobs[j]]
             /\ background_tasks' =
                    Append(background_tasks,
                           [job_id |-> job_id, request |-> request, at |-> "scheduled"])
             /\ Respond(c, Return([job_id |-> job_id, status |-> "PENDING"]))

\* backtest_jobs[job_id][key] = value, for the pairs of `writes`
SetJob(job_id, writes) ==
    backtest_jobs' =
        [backtest_jobs EXCEPT ![job_id] =
            [key \in DOMAIN @ |-> IF key \in DOMAIN writes THEN writes[key] ELSE @[key]]]

\* the task k moves to the position `at`
TaskAt(k, at) == background_tasks' = [background_tasks EXCEPT ![k].at = at]

\* a task that starts its simulation without the write of "RUNNING"
RunBacktestStart_StaysPending(k) ==
    /\ background_tasks[k].at = "scheduled"
    /\ LoopFree
    /\ background_tasks[k].job_id \in DOMAIN backtest_jobs
    /\ TaskAt(k, "running")
    /\ UNCHANGED <<pc, call, ret, db_jobs, backtest_jobs>>
    /\ UNCHANGED <<engine_vars, service_vars>>

\* run_backtest up to `await simulate_backtest`.  Without its entry in
\* backtest_jobs the first write raises KeyError, and so does the write of the
\* except block: the task ends with that exception.
RunBacktestStart(k) ==
    LET task == background_tasks[k]
    IN  /\ task.at = "scheduled"
        /\ LoopFree
        /\ IF task.job_id \notin DOMAIN backtest_jobs
           THEN /\ TaskAt(k, "raised")
                /\ UNCHANGED backtest_jobs
           ELSE IF get_strategy(task.request.strategy_id).kind = "raise"
           THEN /\ SetJob(task.job_id,
                          [status |-> "FAILED",
                           error |-> <<get_strategy(task.request.strategy_id).value>>])
                /\ TaskAt(k, "returned")
           ELSE /\ SetJob(task.job_id, [status |-> "RUNNING"])
                /\ TaskAt(k, "running")
        /\ UNCHANGED <<pc, call, ret, db_jobs>>
        /\ UNCHANGED <<engine_vars, service_vars>>

\* run_backtest from the end of simulate_backtest on: the two writes of the
\* result, or those of the except block
RunBacktestFinish(k) ==
    LET task == background_tasks[k]
    IN  /\ task.at = "running"
        /\ \E outcome \in simulate_backtest(task.request) :
              IF task.job_id \notin DOMAIN backtest_jobs
              THEN /\ TaskAt(k, "raised")
                   /\ UNCHANGED backtest_jobs
              ELSE /\ IF outcome.kind = "return"
                      THEN SetJob(task.job_id,
                                  [status |-> "COMPLETED", results |-> <<outcome.value>>])
                      ELSE SetJob(task.job_id,
                                  [status |-> "FAILED", error |-> <<outcome.value>>])
                   /\ TaskAt(k, "returned")
        /\ UNCHANGED <<pc, call, ret, db_jobs>>
        /\ UNCHANGED <<engine_vars, service_vars>>

\* GET /result/{job_id}
get_backtest_result(job_id) ==
    IF job_id \notin DOMAIN backtest_jobs THEN HTTPException(404)
    ELSE LET job == backtest_jobs[job_id]
         IN  IF job.status \in {"PENDING", "RUNNING"}
             THEN Return([job_id |-> job_id, status |-> job.status])
             ELSE IF job.status = "FAILED"
             THEN Return([job_id |-> job_id, status |-> "FAILED", error |-> job.error])
             ELSE Return([job_id |-> job_id, status |-> "COMPLETED",
                          results |-> job.results])

GetBacktestResult(job_id) ==
    /\ Respond([fn |-> "get_backtest_result", job_id |-> job_id],
               get_backtest_result(job_id))
    /\ UNCHANGED job_vars

\* str(job.job_id) of a row: the decimal digits of the integer key
str(k) == ToString(k)

\* the jobs j of backtest_jobs.values() with j["job_id"] == str(job.job_id)
MemoryJobOf(row) ==
    {j \in DOMAIN backtest_jobs : backtest_jobs[j].job_id = str(row.job_id)}

\* GET /history: the `limit` newest rows, newest first, each with the status of
\* its memory job if one is found and with the status of the row otherwise
get_backtest_history(limit) ==
    LET count == IF limit < Len(db_jobs) THEN limit ELSE Len(db_jobs)
        Item(row) ==
            [job_id      |-> row.job_id,
             strategy_id |-> row.strategy_id,
             status      |-> IF MemoryJobOf(row) # {}
                             THEN backtest_jobs[CHOOSE j \in MemoryJobOf(row) : TRUE].status
                             ELSE row.status]
    IN  Return([count   |-> count,
                history |-> [k \in 1 .. count |-> Item(db_jobs[Len(db_jobs) + 1 - k])]])

GetBacktestHistory(limit) ==
    /\ Respond([fn |-> "get_backtest_history", limit |-> limit], get_backtest_history(limit))
    /\ UNCHANGED job_vars

\* DELETE /job/{job_id}
DeleteBacktestJob(job_id) ==
    LET c == [fn |-> "delete_backtest_job", job_id |-> job_id]
    IN  IF job_id \notin DOMAIN backtest_jobs
        THEN /\ Respond(c, HTTPException(404))
             /\ UNCHANGED job_vars
        ELSE /\ backtest_jobs' = [j \in DOMAIN backtest_jobs \ {job_id} |-> backtest_jobs[j]]
             /\ Respond(c, Return([job_id |-> job_id]))
             /\ UNCHANGED <<db_jobs, background_tasks>>

NextJobs ==
    \/ \E request \in BacktestRequest : CreateBacktest(request)
    \/ \E k \in 1 .. Len(background_tasks) : RunBacktestStart(k)
    \/ \E k \in 1 .. Len(background_tasks) : RunBacktestFinish(k)
    \/ \E job_id \in JobIds : GetBacktestResult(job_id)
    \/ \E limit \in {1, MaxJobs} : GetBacktestHistory(limit)
    \/ \E job_id \in JobIds : DeleteBacktestJob(job_id)

SpecJobs == InitJobs /\ [][NextJobs]_vars

---------------------------------------------------------------------------
(* Properties of the job API *)

Statuses == {"PENDING", "RUNNING", "COMPLETED", "FAILED"}

\* the request of the last call is one that create_backtest has to reject
CreateCalled == call # None /\ call[1].fn = "create_backtest"

BadDates(request) == request.start_date >= request.end_date

UnknownStrategy(request) == request.strategy_id \notin Strategies

\* C23: create_backtest answers a request with start_date >= end_date or with an
\* unknown strategy_id by an error, and that call leaves backtest_jobs, the
\* stored job rows and the scheduled background runs as they were.
C23_RejectsBeforeState ==
    [][(CreateCalled' /\ call' # call
          /\ (BadDates(call'[1].request) \/ UnknownStrategy(call'[1].request)))
       => /\ ret'[1].kind = "raise"
          /\ ret'[1].value.status_code = 400
          /\ backtest_jobs' = backtest_jobs
          /\ db_jobs' = db_jobs
          /\ background_tasks' = background_tasks]_vars

\* after accepted requests, a request with a known strategy and start_date =
\* end_date was rejected and everything created before is still there
C23_Witness ==
    /\ CreateCalled
    /\ ~UnknownStrategy(call[1].request)
    /\ call[1].request.start_date = call[1].request.end_date
    /\ ret[1].kind = "raise"
    /\ Len(db_jobs) = 1
    /\ Len(background_tasks) = 1
    /\ DOMAIN backtest_jobs = {uuid4(1)}

NonPositiveCapital(request) == request.initial_capital.n <= 0

\* C24: create_backtest answers a request with initial_capital <= 0 by a
\* validation error, and that call creates no job entry, no job row and no
\* background run.
C24_RejectsNonPositiveCapital ==
    [][(CreateCalled' /\ call' # call /\ NonPositiveCapital(call'[1].request))
       => /\ ret'[1].kind = "raise"
          /\ backtest_jobs' = backtest_jobs
          /\ db_jobs' = db_jobs
          /\ background_tasks' = background_tasks]_vars

\* the moves of the status of a job that stays in backtest_jobs
StatusMoves ==
    {<<"PENDING", "RUNNING">>, <<"RUNNING", "COMPLETED">>, <<"RUNNING", "FAILED">>}

StatusStep ==
    \A j \in DOMAIN backtest_jobs \cap DOMAIN backtest_jobs' :
        \/ backtest_jobs'[j].status = backtest_jobs[j].status
        \/ <<backtest_jobs[j].status, backtest_jobs'[j].status>> \in StatusMoves

ResultOnlyCompleted ==
    \A j \in DOMAIN backtest_jobs :
        /\ backtest_jobs[j].status \in Statuses
        /\ backtest_jobs[j].results # None => backtest_jobs[j].status = "COMPLETED"
        /\ backtest_jobs[j].error # None => backtest_jobs[j].status = "FAILED"
        /\ backtest_jobs[j].status = "COMPLETED" => backtest_jobs[j].results # None

\* what GET /result/{job_id} shows of a job: results with COMPLETED only, an
\* error with FAILED only
ResponseOnlyFinal ==
    (call # None /\ call[1].fn = "get_backtest_result" /\ ret[1].kind = "return") =>
        LET shown == ret[1].value
        IN  /\ "results" \in DOMAIN shown => shown.status = "COMPLETED" /\ shown.results # None
            /\ "error" \in DOMAIN shown => shown.status = "FAILED" /\ shown.error # None

\* C25: the in-memory status of a job moves PENDING -> RUNNING -> COMPLETED or
\* PENDING -> RUNNING -> FAILED only, and never leaves COMPLETED or FAILED;
\* results is set only on a COMPLETED job (and every COMPLETED job has its
\* results), error only on a FAILED job, also in what get_backtest_result shows.
C25_StatusLifecycle ==
    /\ [](ResultOnlyCompleted /\ ResponseOnlyFinal)
    /\ [][StatusStep]_vars

\* one job completed with its results, the other failed with its error, and the
\* result of the completed one was fetched
C25_Witness ==
    /\ \E j \in DOMAIN backtest_jobs :
          /\ backtest_jobs[j].status = "COMPLETED"
          /\ backtest_jobs[j].results # None
          /\ call # None
          /\ call[1] = [fn |-> "get_backtest_result", job_id |-> j]
    /\ \E j \in DOMAIN backtest_jobs :
          /\ backtest_jobs[j].status = "FAILED"
          /\ backtest_jobs[j].error # None
          /\ backtest_jobs[j].results = None

\* two Bollinger jobs were created from the same request
SameRequest(a, b) ==
    /\ a.strategy_id = "bollinger_breakout_v1"
    /\ b.strategy_id = a.strategy_id
    /\ b.start_date = a.start_date
    /\ b.end_date = a.end_date
    /\ b.initial_capital = a.initial_capital

---------------------------------------------------------------------------
(* Edge cases of the engine and of the strategies *)

\* C27: a run that processed no candle (its equity curve is empty) still ends
\* with a result, whose max_drawdown is a defined fallback value; the empty list
\* of equities raises nothing.
C27_EmptyCurveStillReturns ==
    (pc \in {"done", "failed"} /\ equity_curve = <<>>) =>
        /\ Returned
        /\ results[1].summary.max_drawdown.d > 0

\* a strategy was called on a series long enough for its indicators, whose
\* last 14 differences hold no drop
RsiCalled ==
    /\ call # None
    /\ \/ call[1].fn = "Momentum.check_entry_signal" /\ call[1].n >= MinMomentumCandles
       \/ call[1].fn = "MeanReversion.check_entry_signal"
              /\ call[1].n >= MinMeanReversionCandles

ZeroLoss == RsiCalled /\ AvgLoss(call[1].deltas) = RInt(0)

\* C28: when the average loss of the 14-candle window is 0, the RSI of the
\* momentum and of the mean-reversion signal is 100, also when the average gain
\* is 0 as well, and the entry signal is false.
C28_ZeroLossRsiIs100 ==
    (ZeroLoss /\ pc = "returned") =>
        /\ RSI(AvgGain(call[1].deltas), AvgLoss(call[1].deltas)) = RInt(100)
        /\ ret[1] = Return(FALSE)

\* C29: calculate_pnl takes the size as a notional: for 'long' it returns
\* (current_price - entry_price) * position_size / entry_price, the pnl that the
\* engine books for that entry, close and size, and for 'short' the negated
\* value.
C29_NotionalPnl ==
    (Called("calculate_pnl") /\ pc = "returned" /\ call[1].direction \in {"long", "short"}) =>
        LET c      == call[1]
            booked == Pnl(c.current_price, c.entry_price, c.position_size)
        IN  ret[1].value = IF c.direction = "long" THEN booked ELSE RNeg(booked)

TrailingClosed(t) == IsClosed(t) /\ t.close_reason = "trailing_stop"

---------------------------------------------------------------------------
(* The live-trading API: live_trading_state and the live_trading_status table *)

\* a handler of live.py or a method of the connection manager ran to its end
Answer(c, outcome) ==
    /\ call' = <<c>>
    /\ ret' = <<outcome>>
    /\ UNCHANGED pc
    /\ UNCHANGED <<engine_vars, job_vars>>

\* POST /start bodies; risk_per_trade in percent
LiveTradingRequest ==
    [strategy_id : Strategies \cup {"unknown_v1"}, risk_per_trade : {DefaultRisk, 10, 20}]

\* a row of live_trading_status
LiveTradingStatus(is_active, strategy_id, risk_per_trade) ==
    [is_active |-> is_active, strategy_id |-> strategy_id, risk_per_trade |-> risk_per_trade]

\* The table as the process finds it when it starts: empty, or holding the row
\* that an earlier process of the service left there.
StoredStatuses ==
    {<<>>} \cup {<<LiveTradingStatus(a, "momentum_v1", DefaultRisk)>> : a \in BOOLEAN}

\* current_status = db.query(LiveTradingStatus).first()
current_status == live_trading_status

\* `current_status and current_status.is_active`
StatusActive == current_status # <<>> /\ current_status[1].is_active

InitLive ==
    /\ pc = "serving"
    /\ call = None
    /\ ret = None
    /\ NoJobs
    /\ EngineIdle
    /\ live_trading_state = InitialLiveState
    /\ live_trading_status \in StoredStatuses
    /\ active_connections = <<>>
    /\ connection_data = <<>>
    /\ application_state = <<>>
    /\ broadcasting = <<>>

\* GET /status: the row, or the defaults when the table is empty
GetLiveStatus ==
    /\ Answer([fn |-> "get_live_status"],
              Return(IF current_status # <<>> THEN current_status[1]
                     ELSE LiveTradingStatus(FALSE, <<>>, DefaultRisk)))
    /\ UNCHANGED service_vars

\* POST /start
StartLiveTrading(request) ==
    LET c == [fn |-> "start_live_trading", request |-> request]
    IN  /\ UNCHANGED socket_vars
        /\ IF get_strategy(request.strategy_id).kind = "raise"
           THEN /\ Answer(c, HTTPException(400))
                /\ UNCHANGED live_vars
           ELSE IF StatusActive
           THEN /\ Answer(c, HTTPException(400))
                /\ UNCHANGED live_vars
           ELSE /\ live_trading_status' =
                       <<LiveTradingStatus(TRUE, request.strategy_id, request.risk_per_trade)>>
                /\ live_trading_state' =
                       [live_trading_state EXCEPT !.is_active = TRUE,
                                                  !.strategy_id = <<request.strategy_id>>,
                                                  !.risk_per_trade = request.risk_per_trade,
                                                  !.start_time = <<"now">>]
                /\ Answer(c, Return([strategy_id    |-> request.strategy_id,
                                     risk_per_trade |-> request.risk_per_trade]))

\* POST /stop
StopLiveTrading ==
    LET c == [fn |-> "stop_live_trading"]
    IN  /\ UNCHANGED socket_vars
        /\ IF ~StatusActive
           THEN /\ Answer(c, HTTPException(400))
                /\ UNCHANGED live_vars
           ELSE /\ live_trading_status' =
                       <<[current_status[1] EXCEPT !.is_active = FALSE]>>
                /\ live_trading_state' =
                       [live_trading_state EXCEPT !.is_active = FALSE,
                                                  !.strategy_id = <<>>,
                                                  !.start_time = <<>>]
                /\ Answer(c, Return([message |-> "stopped"]))

NextLive ==
    \/ GetLiveStatus
    \/ \E request \in LiveTradingRequest : StartLiveTrading(request)
    \/ StopLiveTrading

SpecLive == InitLive /\ [][NextLive]_vars

---------------------------------------------------------------------------
(* websocket.py: ConnectionManager.  A method runs without interruption from *)
(* one await to the next; calls on other sockets interleave with the sends   *)
(* of a broadcast.                                                           *)

\* the WebSocket objects handed to the manager
MaxSockets == 2

WebSockets == 1 .. MaxSockets

\* client_id: None or the name an endpoint passes
ClientIds == {None, <<"trades_client">>}

InitSockets ==
    /\ pc = "serving"
    /\ call = None
    /\ ret = None
    /\ NoJobs
    /\ EngineIdle
    /\ live_trading_state = InitialLiveState
    /\ live_trading_status = <<>>
    /\ active_connections = <<>>
    /\ connection_data = <<>>
    /\ application_state = [w \in WebSockets |-> "connecting"]
    /\ broadcasting = <<>>

\* `websocket in self.active_connections`
InList(connections, websocket) ==
    \E k \in 1 .. Len(connections) : connections[k] = websocket

\* list.remove(websocket): the list without the first occurrence
Remove(connections, websocket) ==
    LET k == CHOOSE k \in 1 .. Len(connections) :
                 /\ connections[k] = websocket
                 /\ \A m \in 1 .. k - 1 : connections[m] # websocket
    IN  SubSeq(connections, 1, k - 1) \o SubSeq(connections, k + 1, Len(connections))

\* disconnect that leaves the entry of the socket in connection_data
disconnect_KeepsData(manager, websocket) ==
    IF ~InList(manager.active_connections, websocket)
    THEN [manager EXCEPT !.outcome = Return(None)]
    ELSE [manager EXCEPT !.active_connections = Remove(@, websocket),
                         !.outcome = Return(None)]

\* ConnectionManager.disconnect on a manager [active_connections,
\* connection_data]: the fields after the call and its outcome (del raises
\* KeyError for a missing key, after the list was changed)
disconnect(manager, websocket) ==
    IF ~InList(manager.active_connections, websocket)
    THEN [manager EXCEPT !.outcome = Return(None)]
    ELSE IF websocket \notin DOMAIN manager.connection_data
    THEN [manager EXCEPT !.active_connections = Remove(@, websocket),
                         !.outcome = Raise("KeyError")]
    ELSE [manager EXCEPT !.active_connections = Remove(@, websocket),
                         !.connection_data =
                             [w \in DOMAIN manager.connection_data \ {websocket} |->
                                 manager.connection_data[w]],
                         !.outcome = Return(None)]

\* the manager before a call
Manager ==
    [active_connections |-> active_connections,
     connection_data    |-> connection_data,
     outcome            |-> Return(None)]

\* the fields of the manager become those of m
Becomes(m) ==
    /\ active_connections' = m.active_connections
    /\ connection_data' = m.connection_data

\* await websocket.accept(): only a socket that was not accepted before can be
\* accepted, and the attempt can fail; the object is marked before the message
\* leaves, so a failed attempt may leave it marked
Accept(websocket, accepted) ==
    /\ accepted => application_state[websocket] = "connecting"
    /\ \E marked \in {accepted, TRUE} :
           application_state' =
               [application_state EXCEPT ![websocket] =
                    IF marked /\ @ = "connecting" THEN "connected" ELSE @]

\* await websocket.send_text(message): succeeds on an accepted socket only, and
\* can fail on any
SendText(websocket, sent) == sent => application_state[websocket] = "connected"

\* ConnectionManager.connect
Connect(websocket, client_id) ==
    LET c == [fn |-> "connect", websocket |-> websocket, client_id |-> client_id]
    IN  \E accepted \in BOOLEAN :
            /\ Accept(websocket, accepted)
            /\ IF accepted
               THEN /\ active_connections' = Append(active_connections, websocket)
                    /\ connection_data' =
                           [w \in DOMAIN connection_data \cup {websocket} |->
                               IF w = websocket
                               THEN [client_id |->
                                         IF client_id # None THEN client_id[1]
                                         ELSE "client_" \o ToString(Len(active_connections'))]
                               ELSE connection_data[w]]
                    /\ Answer(c, Return(None))
               ELSE /\ UNCHANGED <<active_connections, connection_data>>
                    /\ Answer(c, Raise("RuntimeError"))
            /\ UNCHANGED <<live_vars, broadcasting>>

\* ConnectionManager.disconnect
Disconnect(websocket) ==
    LET m == disconnect(Manager, websocket)
    IN  /\ Becomes(m)
        /\ Answer([fn |-> "disconnect", websocket |-> websocket], m.outcome)
        /\ UNCHANGED <<live_vars, application_state, broadcasting>>

\* ConnectionManager.send_personal_message: a failed send disconnects the socket
SendPersonalMessage(websocket) ==
    \E sent \in BOOLEAN :
        LET m == IF sent THEN Manager ELSE disconnect(Manager, websocket)
        IN  /\ SendText(websocket, sent)
            /\ Becomes(m)
            /\ Answer([fn |-> "send_personal_message", websocket |-> websocket, sent |-> sent],
                      m.outcome)
            /\ UNCHANGED <<live_vars, application_state, broadcasting>>

\* broadcast up to its first await: the iteration over active_connections begins
BroadcastStart ==
    /\ broadcasting = <<>>
    /\ broadcasting' = <<[index |-> 0, disconnected |-> <<>>]>>
    /\ Answer([fn |-> "broadcast", at |-> "start"], Return(None))
    /\ UNCHANGED <<live_vars, active_connections, connection_data, application_state>>

\* one round of `for connection in self.active_connections`: the iterator
\* takes the element at its index from the list as it is now
BroadcastSend ==
    /\ broadcasting # <<>>
    /\ broadcasting[1].index < Len(active_connections)
    /\ LET connection == active_connections[broadcasting[1].index + 1]
       IN  \E sent \in BOOLEAN :
               /\ SendText(connection, sent)
               /\ broadcasting' =
                      <<[index        |-> broadcasting[1].index + 1,
                         disconnected |-> IF sent THEN broadcasting[1].disconnected
                                          ELSE Append(broadcasting[1].disconnected, connection)]>>
               /\ Answer([fn |-> "broadcast", at |-> "send", websocket |-> connection,
                          sent |-> sent], Return(None))
    /\ UNCHANGED <<live_vars, active_connections, connection_data, application_state>>

\* disconnect called for each socket of the list, in order, until one raises
RECURSIVE DisconnectAll(_, _)
DisconnectAll(manager, disconnected) ==
    IF disconnected = <<>> \/ manager.outcome.kind = "raise" THEN manager
    ELSE DisconnectAll(disconnect(manager, Head(disconnected)), Tail(disconnected))

\* the end of the iteration and `for connection in disconnected`
BroadcastEnd ==
    /\ broadcasting # <<>>
    /\ broadcasting[1].index >= Len(active_connections)
    /\ LET m == DisconnectAll(Manager, broadcasting[1].disconnected)
       IN  /\ Becomes(m)
           /\ Answer([fn |-> "broadcast", at |-> "end",
                      disconnected |-> broadcasting[1].disconnected], m.outcome)
    /\ broadcasting' = <<>>
    /\ UNCHANGED <<live_vars, application_state>>

NextSockets ==
    \/ \E websocket \in WebSockets : \E client_id \in ClientIds : Connect(websocket, client_id)
    \/ \E websocket \in WebSockets : Disconnect(websocket)
    \/ \E websocket \in WebSockets : SendPersonalMessage(websocket)
    \/ BroadcastStart
    \/ BroadcastSend
    \/ BroadcastEnd

SpecSockets == InitSockets /\ [][NextSockets]_vars

---------------------------------------------------------------------------
(* Properties of the job history, of the deletion of jobs and of the ledger *)

\* a step in which get_backtest_history answers
HistoryCalled ==
    /\ call' # None
    /\ call'[1].fn = "get_backtest_history"
    /\ ret'[1].kind = "return"
    /\ <<call', ret'>> # <<call, ret>>

\* the memory job created together with the row of a history entry
TrackedJob(entry) == uuid4(entry.job_id)

\* C31: every entry of the history whose job is still in backtest_jobs carries
\* that job's in-memory status; the other entries carry the status of the row.
C31_HistoryShowsMemoryStatus ==
    [][HistoryCalled =>
        \A k \in 1 .. Len(ret'[1].value.history) :
            LET entry == ret'[1].value.history[k]
            IN  entry.status =
                    IF TrackedJob(entry) \in DOMAIN backtest_jobs'
                    THEN backtest_jobs'[TrackedJob(entry)].status
                    ELSE db_jobs'[entry.job_id].status]_vars

\* C32: trades never overlap in time.  Only the last trade of the ledger can
\* be unclosed, the close_date of a trade is strictly before the date of the
\* trade after it, and a candle that closes a position appends no trade and
\* leaves no position open.
C32_TradesNeverOverlap ==
    /\ [](/\ \A k \in 1 .. Len(trades) - 1 : IsClosed(trades[k])
          /\ \A k \in 1 .. Len(trades) - 1 : trades[k].close_date < trades[k + 1].date)
    /\ [][ProcessesCandle /\ position # None /\ IsClosed(trades'[Len(trades)]) =>
              /\ trades'[Len(trades)].close_date = i
              /\ Len(trades') = Len(trades)
              /\ position' = None]_vars

\* C32 witness: a position was closed by a candle that carries an entry signal
\* of its own, and the next trade was entered on the candle after it.
C32_Witness ==
    /\ Len(trades) = 2
    /\ BreakoutOn(ohlcv_data[trades[1].close_date])
    /\ trades[1].close_date > trades[1].date
    /\ trades[2].date = trades[1].close_date + 1

\* C33: with a positive initial capital and positive closes, the capital is
\* strictly positive after every candle, every trade has a size > 0 that is
\* 30% of the capital at its entry, and a closed trade lost less than its size.
C33_CapitalStaysPositive ==
    /\ RPos(current_capital)
    /\ \A k \in 1 .. Len(equity_curve) : RPos(equity_curve[k].equity)
    /\ \A k \in 1 .. Len(trades) :
           /\ RPos(trades[k].size)
           /\ trades[k].size =
                  RMul(RAdd(initial_capital, RealizedBefore(trades, k)),
                       get_position_size_ratio)
           /\ RPos(RAdd(trades[k].size, trades[k].pnl))

\* C33 witness: a trade was closed far below its stop loss, losing more than
\* four fifths of its size, and a later trade was entered with the smaller
\* capital.
C33_Witness ==
    /\ Len(trades) = 2
    /\ trades[1].close_reason = "stop_loss"
    /\ RLess(trades[1].pnl, RNeg(RScale(trades[1].size, 4, 5)))
    /\ RLess(current_capital, initial_capital)
    /\ RLess(trades[2].size, trades[1].size)

C35_RunSurvivesDelete ==
    /\ [](\A k \in 1 .. Len(background_tasks) : background_tasks[k].at # "raised")
    /\ [][\A k \in 1 .. Len(background_tasks) :
              background_tasks[k].job_id \notin DOMAIN backtest_jobs =>
                  background_tasks[k].job_id \notin DOMAIN backtest_jobs']_vars

---------------------------------------------------------------------------
(* Properties of the SIDEWAYS scan *)

SidewaysScanned ==
    /\ Called("scan_universe")
    /\ pc = "returned"
    /\ call[1].market_regime = "SIDEWAYS"

\* the symbols of the ticker list are pairwise different
UniqueSymbols(tickers) ==
    \A k \in 1 .. Len(tickers) : \A m \in 1 .. Len(tickers) :
        tickers[k].symbol = tickers[m].symbol => k = m

\* C36: in the result of a SIDEWAYS scan of a ticker list with unique symbols
\* no symbol appears twice, so none is returned both long and short.
C36_NoSymbolTwice ==
    SidewaysScanned /\ UniqueSymbols(call[1].all_tickers_data) =>
        \A k \in 1 .. Len(Picked) : \A m \in 1 .. Len(Picked) :
            Picked[k].symbol = Picked[m].symbol => k = m

\* the change percentages of the usdt pairs are pairwise different
DistinctChanges(tickers) ==
    \A k \in 1 .. Len(tickers) : \A m \in 1 .. Len(tickers) :
        tickers[k].change_pct = tickers[m].change_pct => k = m

\* C37: for a ticker list with distinct change percentages the short entries of
\* the SIDEWAYS result are the entries of the DOWNTREND result of the same
\* list, in the same order.
C37_SidewaysShortsAsDowntrend ==
    SidewaysScanned /\ DistinctChanges(usdt_pairs(call[1].all_tickers_data)) =>
        SelectSeq(Picked, LAMBDA pick : pick.direction = "short")
            = scan_universe("DOWNTREND", call[1].all_tickers_data).value

---------------------------------------------------------------------------
(* Properties of the live-trading state *)

\* a step in which the handler fn answers
Answered(fn) ==
    /\ call' # None
    /\ call'[1].fn = fn
    /\ <<call', ret'>> # <<call, ret>> \/ live_vars' # live_vars

Rejected == ret'[1].kind = "raise"

\* C38: after every start and stop request live_trading_state['is_active']
\* equals the persisted is_active (no row counting as inactive); a start is
\* rejected when trading is active, a stop when it is not, and a rejected
\* request changes neither the row nor the in-memory state.
C38_MemoryMatchesPersisted ==
    /\ [](call # None /\ call[1].fn \in {"start_live_trading", "stop_live_trading"}
              => live_trading_state.is_active = StatusActive)
    /\ [][/\ Answered("start_live_trading") /\ StatusActive => Rejected
          /\ Answered("stop_live_trading") /\ ~StatusActive => Rejected
          /\ (Answered("start_live_trading") \/ Answered("stop_live_trading")) /\ Rejected
                 => UNCHANGED live_vars]_vars

---------------------------------------------------------------------------
(* Properties of the connection manager *)

SocketsOf(connections) == {connections[k] : k \in 1 .. Len(connections)}

\* a step of the method fn of the manager
ManagerStep(fn) ==
    /\ call' # None
    /\ call'[1].fn = fn
    /\ <<call', ret'>> # <<call, ret>> \/ socket_vars' # socket_vars

\* C39: the sockets of active_connections are the keys of connection_data after
\* every call; a disconnect of a socket that is not connected changes neither;
\* when a broadcast ends, the sockets whose send failed are in neither.
C39_ConnectionsMatchData ==
    /\ [](SocketsOf(active_connections) = DOMAIN connection_data)
    /\ [][ManagerStep("disconnect") /\ ~InList(active_connections, call'[1].websocket)
              => /\ UNCHANGED <<active_connections, connection_data>>
                 /\ ret'[1].kind = "return"]_vars
    /\ [][ManagerStep("broadcast") /\ call'[1].at = "end"
              => /\ ret'[1].kind = "return"
                 /\ \A w \in SocketsOf(call'[1].disconnected) :
                        /\ ~InList(active_connections', w)
                        /\ w \notin DOMAIN connection_data']_vars

\* C39 witness: a broadcast ended while every socket had been accepted; the
\* send to one socket failed and that socket is gone from both, and another
\* socket is still in both.
C39_Witness ==
    /\ call # None
    /\ call[1].fn = "broadcast"
    /\ call[1].at = "end"
    /\ Len(call[1].disconnected) = 1
    /\ \A w \in WebSockets : application_state[w] = "connected"
    /\ Len(active_connections) = 1
    /\ DOMAIN connection_data = SocketsOf(active_connections)

=============================================================================
